---- MODULE Spec2Model ----
(***************************************************************************)
(* Model of the Dapper Legacy Wallet support app: the invoke0 payload      *)
(* encoder (numToUint8Array32, txData, prepareInvokeData), the cosigner    *)
(* lookup (getAuthVersion, shift, getCosignerForAuthorized) and the        *)
(* AppView state machine (sign-in, wallet linking, invokeTx).              *)
(*                                                                         *)
(* Strings are sequences of one-character strings; byte arrays are         *)
(* sequences of 0..255; a big integer (BN, BigInt) is a record             *)
(* [neg, mag] whose magnitude is a big-endian sequence of nibbles without  *)
(* leading zeros (<<>> is zero), so that 256-bit values keep their width.  *)
(***************************************************************************)
EXTENDS Integers, Sequences, FiniteSets, TLC

VARIABLES
    bnStrict,       \* the installed bn.js rejects invalid characters (5.x) or not (4.x)
    op,             \* codec: the function last called
    args,           \* codec: its arguments
    ret,            \* codec: its outcome
    authPc,         \* getCosignerForAuthorized: where the attempt stands
    authAddress,    \* its address argument
    authVersionRet, \* what authVersion().call() gave
    authKeyArg,     \* the argument passed to authorizations()
    authRawRet,     \* what authorizations(key).call() gave
    authResult,     \* the string returned
    authReads,      \* the contract reads made, in order
    ethereum,       \* window.ethereum: "none", "dapper" or "other"
    loggedIn,       \* App: the signed-in wallet address, if any
    isDapper,       \* App: the connected wallet is a Dapper wallet
    contract,       \* AppView: the contract of the signed-in Dapper wallet
    walletDetails,  \* AppView: dapperWallet, dapperWalletInput, cosigner
    alertOpen,      \* the message of the open alert() dialog, or "none"
    links,          \* handleSetDapperWallet calls awaiting the lookup
    lookups,        \* the lookups that have returned an address
    calls,          \* invokeTx calls that have not been collected yet
    newAuthorized,        \* Authorization: walletDetails.newAuthorized
    authorizationSuccess, \* Authorization: the success view is shown
    setAuthorizedSends,   \* Authorization: the setAuthorized(...).send() calls, in order
    authorizationCopy,    \* Authorization: which copy of the component is mounted
    component,      \* the token form that is mounted: "ERC721", "CryptoPunks" or "none"
    tokenContract,  \* token form: the contract state is set
    formDetails,    \* token form: the form state
    ownerReads,     \* token form: ownership reads awaiting the provider
    lastCheck,      \* token form: the last ownership read that returned
    transfers,      \* token form: invokeTx calls awaiting their promise
    lastTransfer,   \* token form: how the last invokeTx promise settled
    kittiesVariant, \* CryptoKitties: which copy of the component is mounted
    totalSupply,    \* CryptoKitties: the totalSupply state
    kittyId,        \* CryptoKitties: the text of the id input
    kittiesLoading, \* CryptoKitties: formDetails.loading
    kittyStatuses,  \* CryptoKitties: the status rows
    checkRuns,      \* CryptoKitties: checkAllKitties runs in progress
    kittyTxs,       \* CryptoKitties: invokeTx calls awaiting their promise
    lastChecked,    \* CryptoKitties: the check of one id that has just finished
    erc20Contract,  \* ERC20: the contract state is set
    erc20Balance,   \* ERC20: the balance state, in the smallest unit
    erc20Form,      \* ERC20: the form state
    erc20Pending,   \* ERC20: calls awaiting the provider or invokeTx
    ethTransactions \* EthTransactions: recipient, amount, loading, successMessage

codecVars == <<bnStrict, op, args, ret>>

authVars == <<authPc, authAddress, authVersionRet, authKeyArg, authRawRet,
              authResult, authReads>>

appVars == <<ethereum, loggedIn, isDapper, contract, walletDetails, alertOpen,
             links, lookups, calls>>

authorizationVars == <<newAuthorized, authorizationSuccess, setAuthorizedSends,
                       authorizationCopy>>

tokenVars == <<component, tokenContract, formDetails, ownerReads, lastCheck, transfers,
                   lastTransfer>>

kittyVars == <<kittiesVariant, totalSupply, kittyId, kittiesLoading, kittyStatuses,
              checkRuns, kittyTxs, lastChecked>>

erc20Vars == <<erc20Contract, erc20Balance, erc20Form, erc20Pending>>

ethVars == <<ethTransactions>>

pageVars == <<kittyVars, erc20Vars, ethVars>>

uiVars == <<authorizationVars, tokenVars, pageVars>>

vars == <<codecVars, authVars, appVars, uiVars>>

-----------------------------------------------------------------------------
(* Program constants *)

WordHexLen == 64
AddrHexLen == 40
AddrBytes == 20
ShiftBits == 160
HeaderLen == 85

(* Bounds of the model *)

MaxDataLen == 2
MaxCalls == 1

-----------------------------------------------------------------------------
(* Characters and strings *)

Rep(c, n) == [i \in 1..n |-> c]

HexChars == <<"0","1","2","3","4","5","6","7","8","9","a","b","c","d","e","f">>

HexVal(c) ==
    CASE c = "0" -> 0 [] c = "1" -> 1 [] c = "2" -> 2 [] c = "3" -> 3
      [] c = "4" -> 4 [] c = "5" -> 5 [] c = "6" -> 6 [] c = "7" -> 7
      [] c = "8" -> 8 [] c = "9" -> 9
      [] c \in {"a", "A"} -> 10 [] c \in {"b", "B"} -> 11
      [] c \in {"c", "C"} -> 12 [] c \in {"d", "D"} -> 13
      [] c \in {"e", "E"} -> 14 [] c \in {"f", "F"} -> 15
      [] OTHER -> -1

IsHexChar(c) == HexVal(c) >= 0

IsDecChar(c) == HexVal(c) >= 0 /\ HexVal(c) <= 9

toLowerCaseChar(c) ==
    CASE c = "A" -> "a" [] c = "B" -> "b" [] c = "C" -> "c" [] c = "D" -> "d"
      [] c = "E" -> "e" [] c = "F" -> "f" [] c = "X" -> "x" [] OTHER -> c

toLowerCase(s) == [i \in 1..Len(s) |-> toLowerCaseChar(s[i])]

padStart_padEnd(s, n, c) ==
    IF Len(s) >= n THEN s ELSE s \o Rep(c, n - Len(s))

padStart(s, n, c) ==
    IF Len(s) >= n THEN s ELSE Rep(c, n - Len(s)) \o s

\* String.prototype.replace("0x", ""): removes the first occurrence only.
replace0x(s) ==
    LET hits == {i \in 1..(Len(s) - 1) : s[i] = "0" /\ s[i + 1] = "x"}
    IN  IF hits = {} THEN s
        ELSE LET i == CHOOSE j \in hits : \A k \in hits : j <= k
             IN  SubSeq(s, 1, i - 1) \o SubSeq(s, i + 2, Len(s))

-----------------------------------------------------------------------------
(* Big integers as nibble sequences *)

\* Leading zero nibbles dropped.
Norm(m) ==
    IF \A i \in 1..Len(m) : m[i] = 0 THEN <<>>
    ELSE LET k == CHOOSE i \in 1..Len(m) :
                    m[i] # 0 /\ \A j \in 1..(i - 1) : m[j] = 0
         IN  SubSeq(m, k, Len(m))

RECURSIVE NatToNibbles(_)
NatToNibbles(n) ==
    IF n = 0 THEN <<>> ELSE NatToNibbles(n \div 16) \o <<n % 16>>

RECURSIVE NibblesToNat(_)
NibblesToNat(m) ==
    IF m = <<>> THEN 0
    ELSE 16 * NibblesToNat(SubSeq(m, 1, Len(m) - 1)) + m[Len(m)]

\* A magnitude as limbs of three nibbles (base 4096), and back.
ToLimbs(m) ==
    LET p == Rep(0, (3 - (Len(m) % 3)) % 3) \o m
    IN  [i \in 1..(Len(p) \div 3) |-> 256 * p[3 * i - 2] + 16 * p[3 * i - 1] + p[3 * i]]

FromLimbs(l) ==
    Norm([i \in 1..(3 * Len(l)) |->
            LET x == l[(i + 2) \div 3]
            IN  CASE i % 3 = 1 -> x \div 256
                  [] i % 3 = 2 -> (x \div 16) % 16
                  [] OTHER     -> x % 16])

\* l * k + d on limbs, least significant limb first.
RECURSIVE MulAddLimbs(_, _, _)
MulAddLimbs(l, k, d) ==
    IF l = <<>> THEN (IF d = 0 THEN <<>> ELSE ToLimbs(NatToNibbles(d)))
    ELSE LET t == l[Len(l)] * k + d
         IN  IF t < 0 THEN <<>>
             ELSE MulAddLimbs(SubSeq(l, 1, Len(l) - 1), k, t \div 4096) \o <<t % 4096>>

\* m * k + d for small k and d.
MulAddSmall(m, k, d) == FromLimbs(MulAddLimbs(ToLimbs(m), k, d))

BNZero == [neg |-> FALSE, mag |-> <<>>]

\* The magnitude of a JS number that holds an integer: num.mag when it is
\* given there (numbers beyond the integers of the model), else |num.n|.
NumberMag(num) ==
    IF num.mag # <<>> THEN num.mag
    ELSE NatToNibbles(IF num.n < 0 THEN 0 - num.n ELSE num.n)

\* new BN(number): sign and magnitude of a JS number.  _initNumber asserts
\* number < 0x20000000000000 (2^53).
BNFromNumber(num) ==
    LET m == NumberMag(num)
    IN  IF Len(m) > 14 \/ (Len(m) = 14 /\ m[1] >= 2)
        THEN [ok |-> FALSE, bn |-> BNZero]
        ELSE [ok |-> TRUE, bn |-> [neg |-> num.n < 0, mag |-> m]]

\* bn.js parseBase: the value a character contributes in base 10.  Letters
\* are taken as digits above 9 ('x' - 48 - 49 + 10 = 33).
ParseBaseCharVal(c) ==
    IF IsHexChar(c) THEN HexVal(c) ELSE 33

\* The value of up to four characters and the power of ten they span.
RECURSIVE ChunkVal(_)
ChunkVal(s) ==
    IF s = <<>> THEN 0
    ELSE 10 * ChunkVal(SubSeq(s, 1, Len(s) - 1)) + ParseBaseCharVal(s[Len(s)])

PowTen(n) == CASE n = 0 -> 1 [] n = 1 -> 10 [] n = 2 -> 100 [] n = 3 -> 1000
               [] OTHER -> 10000

\* bn.js _parseBase in base 10: the limbs of the string, left to right, each
\* multiplied in and added (limbs of four characters here).
RECURSIVE ParseBase10(_)
ParseBase10(s) ==
    IF s = <<>> THEN <<>>
    ELSE LET n == IF Len(s) % 4 = 0 THEN 4 ELSE Len(s) % 4
             head == SubSeq(s, 1, Len(s) - n)
             last == SubSeq(s, Len(s) - n + 1, Len(s))
             acc  == ParseBase10(head)
         IN  IF Len(acc) = 0 THEN NatToNibbles(ChunkVal(last))
             ELSE MulAddSmall(acc, PowTen(n), ChunkVal(last))

\* new BN(string) in base 10: an optional leading '-', then parseBase.  A
\* strict build (bn.js 5.x) asserts that every character is a decimal digit.
BNFromString(s, strict) ==
    LET neg    == s # <<>> /\ s[1] = "-"
        digits == IF neg THEN Tail(s) ELSE s
        mag    == ParseBase10(digits)
    IN  IF strict /\ \E i \in 1..Len(digits) : ~IsDecChar(digits[i])
        THEN [ok |-> FALSE, bn |-> BNZero]
        ELSE [ok |-> TRUE, bn |-> [neg |-> neg /\ mag # <<>>, mag |-> mag]]

\* new BN(num) for num: number | string | BN.
NewBN(num, strict) ==
    CASE num.t = "number" -> BNFromNumber(num)
      [] num.t = "string" -> BNFromString(num.s, strict)
      [] OTHER            -> [ok |-> TRUE, bn |-> [neg |-> num.neg, mag |-> num.mag]]

\* BN.prototype.toString(16)
BNToString16(bn) ==
    LET digits == IF bn.mag = <<>> THEN <<"0">>
                  ELSE [i \in 1..Len(bn.mag) |-> HexChars[bn.mag[i] + 1]]
    IN  IF bn.neg THEN <<"-">> \o digits ELSE digits

-----------------------------------------------------------------------------
(* Byte arrays *)

\* String.prototype.match(/.{1,2}/g): pairs from the left, the last one may
\* hold a single character.
MatchPairs(s) ==
    [i \in 1..((Len(s) + 1) \div 2) |->
        SubSeq(s, 2 * i - 1, IF 2 * i <= Len(s) THEN 2 * i ELSE Len(s))]

\* parseInt(chunk, 16) of a chunk of one or two characters: an optional sign,
\* then the longest prefix of hex digits; NaN when there is none.
ParseInt16(chunk) ==
    LET neg  == chunk[1] = "-"
        rest == IF neg THEN Tail(chunk) ELSE chunk
    IN  IF rest = <<>> \/ ~IsHexChar(rest[1]) THEN [nan |-> TRUE, v |-> 0]
        ELSE LET v == IF Len(rest) = 2 /\ IsHexChar(rest[2])
                      THEN 16 * HexVal(rest[1]) + HexVal(rest[2])
                      ELSE HexVal(rest[1])
             IN  [nan |-> FALSE, v |-> IF neg THEN 0 - v ELSE v]

\* Storing a number into a Uint8Array element: NaN becomes 0, others wrap.
ToUint8(x) == IF x.nan THEN 0 ELSE x.v % 256

numToUint8Array32_unpadded(num, strict) ==
    LET b == NewBN(num, strict)
    IN  IF ~b.ok THEN [thrown |-> TRUE, bytes |-> <<>>]
        ELSE LET chunks == MatchPairs(BNToString16(b.bn))
             IN  [thrown |-> FALSE,
                  bytes  |-> [i \in 1..Len(chunks) |-> ToUint8(ParseInt16(chunks[i]))]]

numToUint8Array32(num, strict) ==
    LET b == NewBN(num, strict)
    IN  IF ~b.ok THEN [thrown |-> TRUE, bytes |-> <<>>]
        ELSE LET hexString == padStart(BNToString16(b.bn), WordHexLen, "0")
                 chunks    == MatchPairs(hexString)
             IN  [thrown |-> FALSE,
                  bytes  |-> [i \in 1..Len(chunks) |-> ToUint8(ParseInt16(chunks[i]))]]

\* web3.utils.hexToBytes: a "0x" prefix is added when missing; the string
\* must then be "0x" followed by an even number of hex digits.
hexToBytes(s) ==
    LET prefixed == Len(s) >= 2 /\ s[1] = "0" /\ s[2] \in {"x", "X"}
        digits   == IF prefixed THEN SubSeq(s, 3, Len(s)) ELSE s
    IN  IF (\E i \in 1..Len(digits) : ~IsHexChar(digits[i])) \/ Len(digits) % 2 # 0
        THEN [ok |-> FALSE, bytes |-> <<>>]
        ELSE [ok |-> TRUE,
              bytes |-> [i \in 1..(Len(digits) \div 2) |->
                            16 * HexVal(digits[2 * i - 1]) + HexVal(digits[2 * i])]]

TypedArraySet_truncating(target, src, offset) ==
    [ok |-> TRUE,
     arr |-> [i \in 1..Len(target) |->
                IF i > offset /\ i <= offset + Len(src) THEN src[i - offset]
                ELSE target[i]]]

\* TypedArray.prototype.set(src, offset): RangeError when src does not fit.
TypedArraySet(target, src, offset) ==
    IF Len(src) + offset > Len(target) THEN [ok |-> FALSE, arr |-> target]
    ELSE [ok |-> TRUE,
          arr |-> [i \in 1..Len(target) |->
                     IF i > offset /\ i <= offset + Len(src) THEN src[i - offset]
                     ELSE target[i]]]

Thrown == [thrown |-> TRUE, bytes |-> <<>>]

txData_lengthFirst(revert, to, amount, dataBuff, strict) ==
    LET hb          == hexToBytes(padStart(replace0x(to), AddrHexLen, "0"))
        addrSet     == TypedArraySet(Rep(0, AddrBytes), hb.bytes, 0)
        amountArray == numToUint8Array32(amount, strict)
        dataLengthArray == numToUint8Array32(
            [t |-> "number", n |-> Len(dataBuff), s |-> <<>>, neg |-> FALSE, mag |-> <<>>],
            strict)
        d0 == Rep(0, 1 + AddrBytes + 32 + 32 + Len(dataBuff))
        d1 == TypedArraySet(d0, <<revert % 256>>, 0)
        d2 == TypedArraySet(d1.arr, addrSet.arr, 1)
        d3 == TypedArraySet(d2.arr, dataLengthArray.bytes, 21)
        d4 == TypedArraySet(d3.arr, amountArray.bytes, 53)
        d5 == TypedArraySet(d4.arr, dataBuff, HeaderLen)
    IN  IF ~hb.ok \/ ~addrSet.ok \/ amountArray.thrown \/ dataLengthArray.thrown
           \/ ~d1.ok \/ ~d2.ok \/ ~d3.ok \/ ~d4.ok \/ ~d5.ok
        THEN Thrown
        ELSE [thrown |-> FALSE, bytes |-> d5.arr]

txData(revert, to, amount, dataBuff, strict) ==
    LET hb          == hexToBytes(padStart(replace0x(to), AddrHexLen, "0"))
        addrSet     == TypedArraySet(Rep(0, AddrBytes), hb.bytes, 0)
        amountArray == numToUint8Array32(amount, strict)
        dataLengthArray == numToUint8Array32(
            [t |-> "number", n |-> Len(dataBuff), s |-> <<>>, neg |-> FALSE, mag |-> <<>>],
            strict)
        d0 == Rep(0, 1 + AddrBytes + 32 + 32 + Len(dataBuff))
        d1 == TypedArraySet(d0, <<revert % 256>>, 0)
        d2 == TypedArraySet(d1.arr, addrSet.arr, 1)
        d3 == TypedArraySet(d2.arr, amountArray.bytes, 21)
        d4 == TypedArraySet(d3.arr, dataLengthArray.bytes, 53)
        d5 == TypedArraySet(d4.arr, dataBuff, HeaderLen)
    IN  IF ~hb.ok \/ ~addrSet.ok \/ amountArray.thrown \/ dataLengthArray.thrown
           \/ ~d1.ok \/ ~d2.ok \/ ~d3.ok \/ ~d4.ok \/ ~d5.ok
        THEN Thrown
        ELSE [thrown |-> FALSE, bytes |-> d5.arr]

\* b.toString(16).padStart(2, '0') of every byte, joined after "0x".
BytesToHex(bytes) ==
    <<"0", "x">> \o
    [i \in 1..(2 * Len(bytes)) |->
        LET b == bytes[(i + 1) \div 2]
        IN  HexChars[(IF i % 2 = 1 THEN b \div 16 ELSE b % 16) + 1]]

prepareInvokeData_noRevert(contractAddress, functionCall, amount, strict) ==
    LET fb         == hexToBytes(replace0x(functionCall))
        dataBuffer == txData(0, contractAddress,
                             [t |-> "string", n |-> 0, s |-> amount,
                              neg |-> FALSE, mag |-> <<>>],
                             fb.bytes, strict)
    IN  IF ~fb.ok \/ dataBuffer.thrown THEN [thrown |-> TRUE, data |-> <<>>]
        ELSE [thrown |-> FALSE, data |-> BytesToHex(dataBuffer.bytes)]

prepareInvokeData(contractAddress, functionCall, amount, strict) ==
    LET revertFlag == 1
        fb         == hexToBytes(replace0x(functionCall))
        dataBuffer == txData(revertFlag, contractAddress,
                             [t |-> "string", n |-> 0, s |-> amount,
                              neg |-> FALSE, mag |-> <<>>],
                             fb.bytes, strict)
    IN  IF ~fb.ok \/ dataBuffer.thrown THEN [thrown |-> TRUE, data |-> <<>>]
        ELSE [thrown |-> FALSE, data |-> BytesToHex(dataBuffer.bytes)]

-----------------------------------------------------------------------------
(* BigInt arithmetic of the cosigner lookup *)

\* Bitwise OR of two nibbles.
OrNibble(a, b) ==
    LET bit(x, i) == (x \div i) % 2
        or(i)     == IF bit(a, i) + bit(b, i) > 0 THEN i ELSE 0
    IN  or(1) + or(2) + or(4) + or(8)

\* x | y of two non-negative BigInts.
OrBigInt(x, y) ==
    LET n  == IF Len(x) > Len(y) THEN Len(x) ELSE Len(y)
        px == Rep(0, n - Len(x)) \o x
        py == Rep(0, n - Len(y)) \o y
    IN  Norm([i \in 1..n |-> OrNibble(px[i], py[i])])

\* x << 160n
ShiftLeft160(x) == IF x = <<>> THEN <<>> ELSE x \o Rep(0, ShiftBits \div 4)

shift_identity(toShift) == toShift

\* shift: toShift >> BigInt(160)
shift(toShift) ==
    IF Len(toShift) <= ShiftBits \div 4 THEN <<>>
    ELSE SubSeq(toShift, 1, Len(toShift) - ShiftBits \div 4)

\* x & 0xFFFFFFFFFFFFFFFFFFFFFFFFFFFFFFFFFFFFFFFF
MaskLow160(x) ==
    IF Len(x) <= AddrHexLen THEN x
    ELSE Norm(SubSeq(x, Len(x) - AddrHexLen + 1, Len(x)))

\* BigInt(address) of a "0x"-prefixed hex string.
BigIntOfHex(address) ==
    Norm([i \in 1..(Len(address) - 2) |-> HexVal(address[i + 2])])

\* Long division of limbs by a small number, most significant limb first,
\* rem being the remainder carried in.
RECURSIVE DivModLimbs(_, _, _)
DivModLimbs(l, k, rem) ==
    IF l = <<>> THEN [q |-> <<>>, r |-> rem]
    ELSE LET cur  == rem * 4096 + l[1]
         IN  IF cur < 0 THEN [q |-> <<>>, r |-> 0]
             ELSE LET rest == DivModLimbs(Tail(l), k, cur % k)
                  IN  [q |-> <<cur \div k>> \o rest.q, r |-> rest.r]

\* Quotient and remainder of a magnitude by a small number.
DivModSmall(m, k, rem) ==
    LET d == DivModLimbs(ToLimbs(m), k, rem)
    IN  [q |-> FromLimbs(d.q), r |-> d.r]

\* Four decimal digits of a number below 10000.
FourDigits(n) ==
    << HexChars[(n \div 1000) + 1], HexChars[((n \div 100) % 10) + 1],
       HexChars[((n \div 10) % 10) + 1], HexChars[(n % 10) + 1] >>

\* The decimal digits of m, four at a time from the right.
RECURSIVE ToDecimalDigits(_)
ToDecimalDigits(m) ==
    IF m = <<>> THEN <<>>
    ELSE LET d == DivModSmall(m, 10000, 0)
         IN  ToDecimalDigits(d.q) \o FourDigits(d.r)

\* The leading "0" characters of a digit string dropped.
StripZeros(s) ==
    IF \A i \in 1..Len(s) : s[i] = "0" THEN <<>>
    ELSE LET k == CHOOSE i \in 1..Len(s) :
                    s[i] # "0" /\ \A j \in 1..(i - 1) : s[j] = "0"
         IN  SubSeq(s, k, Len(s))

\* BigInt.prototype.toString(): decimal digits.
BigIntToString(m) ==
    IF m = <<>> THEN <<"0">> ELSE StripZeros(ToDecimalDigits(m))

\* BigInt.prototype.toString(16)
BigIntToString16(m) ==
    IF m = <<>> THEN <<"0">> ELSE [i \in 1..Len(m) |-> HexChars[m[i] + 1]]

-----------------------------------------------------------------------------
(* Values a contract read can resolve to *)

JSNone      == [type |-> "none", mag |-> <<>>, s |-> <<>>, n |-> 0]
JSRejected  == [type |-> "rejected", mag |-> <<>>, s |-> <<>>, n |-> 0]
JSUndefined == [type |-> "undefined", mag |-> <<>>, s |-> <<>>, n |-> 0]
JSBigInt(m) == [type |-> "bigint", mag |-> m, s |-> <<>>, n |-> 0]
JSString(s) == [type |-> "string", mag |-> ParseBase10(s), s |-> s, n |-> 0]
JSNumber(n) == [type |-> "number", mag |-> NatToNibbles(n), s |-> <<>>, n |-> n]

\* JavaScript truthiness.
Truthy(v) ==
    CASE v.type = "bigint" -> v.mag # <<>>
      [] v.type = "string" -> v.s # <<>>
      [] v.type = "number" -> v.n # 0
      [] OTHER             -> FALSE

IsValidRead_anyTruthy(v) == Truthy(v)

\* The guard of both reads: value && typeof value === 'bigint'.
IsValidRead(v) == Truthy(v) /\ v.type = "bigint"

getAuthVersion_lenient(v) == [thrown |-> FALSE, mag |-> v.mag]

\* getAuthVersion once authVersion().call() has resolved to v.
getAuthVersion(v) ==
    IF IsValidRead(v) THEN [thrown |-> FALSE, mag |-> v.mag]
    ELSE [thrown |-> TRUE, mag |-> <<>>]

\* The key getCosignerForAuthorized computes and the string it passes on.
CosignerKey(authVersion, address) ==
    OrBigInt(ShiftLeft160(shift(authVersion)), BigIntOfHex(address))

\* getCosignerForAuthorized once authorizations(key).call() has resolved to w.
CosignerResult(w) ==
    IF IsValidRead(w)
    THEN [thrown |-> FALSE,
          address |-> <<"0", "x">> \o
                      padStart(BigIntToString16(MaskLow160(w.mag)), AddrHexLen, "0")]
    ELSE [thrown |-> TRUE, address |-> <<>>]

-----------------------------------------------------------------------------
(* Quiescent values of each part of the state *)

Num(n) == [t |-> "number", n |-> n, s |-> <<>>, neg |-> FALSE, mag |-> <<>>]
NumOf(mag) == [t |-> "number", n |-> 0, s |-> <<>>, neg |-> FALSE, mag |-> mag]
Str(s) == [t |-> "string", n |-> 0, s |-> s, neg |-> FALSE, mag |-> <<>>]
Big(neg, mag) == [t |-> "bn", n |-> 0, s |-> <<>>, neg |-> neg, mag |-> mag]

NoArgs ==
    [revert |-> 0, to |-> <<>>, amount |-> Num(0), dataBuff |-> <<>>,
     functionCall |-> <<>>, amountStr |-> <<>>]

NoRet == [thrown |-> FALSE, bytes |-> <<>>, data |-> <<>>]

CodecIdle ==
    /\ op = "idle"
    /\ args = NoArgs
    /\ ret = NoRet

AuthIdle ==
    /\ authPc = "idle"
    /\ authAddress = <<>>
    /\ authVersionRet = JSNone
    /\ authKeyArg = <<>>
    /\ authRawRet = JSNone
    /\ authResult = <<>>
    /\ authReads = <<>>

\* An optional string: undefined, or the string s.
None == [def |-> FALSE, s |-> <<>>]
Some(s) == [def |-> TRUE, s |-> s]

\* JavaScript truthiness of an optional string.
TruthyString(o) == o.def /\ o.s # <<>>

\* The state of App and AppView after the first render.
\* useState of Authorization: nothing entered, no success, nothing sent.
AuthorizationIdle ==
    /\ newAuthorized = <<>>
    /\ authorizationSuccess = FALSE
    /\ setAuthorizedSends = <<>>

\* initFormState of the ERC721 and CryptoPunk forms.
initFormState(walletAddress, contractAddress) ==
    [tokenId |-> <<>>, transferrable |-> FALSE, loading |-> FALSE,
     contractAddress |-> contractAddress, contractAbi |-> <<>>,
     transferSuccess |-> FALSE, transferTo |-> walletAddress]

NoCheck ==
    [done |-> FALSE, rejected |-> FALSE, tokenId |-> <<>>, owner |-> <<>>,
     dapperWalletAddress |-> <<>>]

\* No token form is mounted.
TokenIdle ==
    /\ component = "none"
    /\ tokenContract = FALSE
    /\ formDetails = initFormState(<<>>, <<>>)
    /\ ownerReads = {}
    /\ lastCheck = NoCheck
    /\ transfers = {}
    /\ lastTransfer = "none"

NoKittyChecked == [done |-> FALSE, id |-> <<>>, log |-> <<>>, rows |-> {}]

\* The CryptoKitties page is not mounted.
KittiesIdle ==
    /\ kittiesVariant = "none"
    /\ totalSupply = 0
    /\ kittyId = <<>>
    /\ kittiesLoading = FALSE
    /\ kittyStatuses = <<>>
    /\ checkRuns = <<>>
    /\ kittyTxs = <<>>
    /\ lastChecked = NoKittyChecked

\* initFormState of the ERC20 page (the abi field is left empty throughout).
Erc20InitFormState ==
    [amount |-> <<>>, loading |-> FALSE, contractAddress |-> <<>>,
     transferSuccess |-> FALSE]

\* The ERC20 page as useState leaves it.
Erc20Idle ==
    /\ erc20Contract = FALSE
    /\ erc20Balance = <<"0">>
    /\ erc20Form = Erc20InitFormState
    /\ erc20Pending = {}

\* The state of EthTransactions as useState leaves it.
EthInitState(walletAddress) ==
    [recipient |-> walletAddress, amount |-> <<>>, loading |-> FALSE,
     successMessage |-> None]

\* The EthTransactions page is not mounted.
EthIdle == ethTransactions = EthInitState(<<>>)

PagesIdle == KittiesIdle /\ Erc20Idle /\ EthIdle

\* The copy of Authorization whose Flow-address check returns.
LatestCopy == authorizationCopy = "returns"

AppIdle ==
    /\ AuthorizationIdle
    /\ TokenIdle
    /\ PagesIdle
    /\ loggedIn = None
    /\ isDapper = FALSE
    /\ contract = None
    /\ walletDetails = [dapperWallet |-> None, dapperWalletInput |-> <<>>,
                        cosigner |-> None]
    /\ alertOpen = "none"
    /\ links = {}
    /\ lookups = {}
    /\ calls = {}

-----------------------------------------------------------------------------
(* The encoder called on its own: inputs of the codec specification *)

RevertFlags == {0, 1}

Target38 == <<"0", "x">> \o Rep("0", 37) \o <<"1">>

Targets ==
    { <<"0", "x", "a", "b">> \o Rep("0", 36) \o <<"c", "d">>,
      <<"0", "x", "A", "b">> \o Rep("0", 36) \o <<"c", "D">>,
      <<"0", "0">> \o Rep("f", 36) \o <<"0", "9">>,
      Target38,
      <<"0", "x", "1", "2", "3">>,
      <<"0", "x">>,
      <<"0", "x", "1", "2">> \o Rep("e", 40),
      <<"0", "x", "1">> \o Rep("e", 40),
      <<"0", "x", "z", "z">> }

\* 2^256 - 1 in decimal.
MaxUint256Decimal ==
    << "1","1","5","7","9","2","0","8","9","2","3","7","3","1","6","1","9","5","4","2",
       "3","5","7","0","9","8","5","0","0","8","6","8","7","9","0","7","8","5","3","2",
       "6","9","9","8","4","6","6","5","6","4","0","5","6","4","0","3","9","4","5","7",
       "5","8","4","0","0","7","9","1","3","1","2","9","6","3","9","9","3","5" >>

\* Numbers include 2^53 - 1, 2^53 and 10^18 (one ether in wei).
Amounts ==
    { Num(0), Num(1), Num(255), Num(256), Num(0 - 1),
      NumOf(<<1>> \o Rep(15, 13)), NumOf(<<2>> \o Rep(0, 13)),
      NumOf(<<13, 14, 0, 11, 6, 11, 3, 10, 7, 6, 4, 0, 0, 0, 0>>),
      Str(<<"0">>), Str(<<"1">>), Str(<<"2", "5", "6">>), Str(<<"0", "x", "0">>),
      Str(<<"-", "1", "6">>), Str(MaxUint256Decimal),
      Big(FALSE, <<>>),
      Big(FALSE, Rep(15, 64)), Big(FALSE, <<8>> \o Rep(0, 63)),
      Big(FALSE, <<1>> \o Rep(0, 64)), Big(FALSE, Rep(15, 66)),
      Big(FALSE, Rep(15, 180)), Big(TRUE, <<15, 15>>) }

ByteAlphabet == {0, 171, 255}

DataBuffs ==
    UNION {[1..n -> ByteAlphabet] : n \in 0..MaxDataLen}

FunctionCalls ==
    { <<"0", "x">>,
      <<"0", "x", "d", "e", "a", "d", "b", "e", "e", "f">>,
      <<"a", "9", "0", "5">>,
      <<"0", "x", "a", "9", "0">>,
      <<"0", "x", "A", "9">> }

AmountStrings ==
    { <<"0">>, <<"1">>, <<"0", "x", "0">>, <<"1", "0", "0", "0">> }

CodecInit ==
    /\ bnStrict \in BOOLEAN
    /\ CodecIdle
    /\ AuthIdle
    /\ ethereum = "other"
    /\ AppIdle
    /\ LatestCopy

NumToUint8Array32Call ==
    /\ op = "idle"
    /\ \E v \in Amounts :
        /\ op' = "numToUint8Array32"
        /\ args' = [NoArgs EXCEPT !.amount = v]
        /\ ret' = LET r == numToUint8Array32(v, bnStrict)
                  IN  [thrown |-> r.thrown, bytes |-> r.bytes, data |-> <<>>]
    /\ UNCHANGED <<bnStrict, authVars, appVars, uiVars>>

TxDataCall ==
    /\ op = "idle"
    /\ \E r \in RevertFlags, a \in Targets, v \in Amounts, d \in DataBuffs :
        /\ op' = "txData"
        /\ args' = [NoArgs EXCEPT !.revert = r, !.to = a, !.amount = v, !.dataBuff = d]
        /\ ret' = LET x == txData(r, a, v, d, bnStrict)
                  IN  [thrown |-> x.thrown, bytes |-> x.bytes, data |-> <<>>]
    /\ UNCHANGED <<bnStrict, authVars, appVars, uiVars>>

PrepareInvokeDataCall ==
    /\ op = "idle"
    /\ \E a \in Targets, f \in FunctionCalls, v \in AmountStrings :
        /\ op' = "prepareInvokeData"
        /\ args' = [NoArgs EXCEPT !.to = a, !.functionCall = f, !.amountStr = v]
        /\ ret' = LET x == prepareInvokeData(a, f, v, bnStrict)
                  IN  [thrown |-> x.thrown, bytes |-> <<>>, data |-> x.data]
    /\ UNCHANGED <<bnStrict, authVars, appVars, uiVars>>

\* The call has returned or thrown; the encoder keeps no state between calls.
CodecReturn ==
    /\ op # "idle"
    /\ op' = "idle"
    /\ args' = NoArgs
    /\ ret' = NoRet
    /\ UNCHANGED <<bnStrict, authVars, appVars, uiVars>>

CodecNext ==
    \/ NumToUint8Array32Call
    \/ TxDataCall
    \/ PrepareInvokeDataCall
    \/ CodecReturn

SpecCodec == CodecInit /\ [][CodecNext]_vars

-----------------------------------------------------------------------------
(* Properties of the encoder *)

\* The hex digits of a target once a leading "0x" is dropped.
TargetDigits(to) ==
    IF Len(to) >= 2 /\ to[1] = "0" /\ to[2] = "x" THEN SubSeq(to, 3, Len(to)) ELSE to

AllHex(s) == \A i \in 1..Len(s) : IsHexChar(s[i])

\* The nibbles a byte sequence spells, most significant first.
BytesToNibbles(bytes) ==
    [i \in 1..(2 * Len(bytes)) |->
        LET b == bytes[(i + 1) \div 2]
        IN  IF i % 2 = 1 THEN b \div 16 ELSE b % 16]

\* The nibbles of a string of hex digits, whatever their case.
DigitsToNibbles(s) == [i \in 1..Len(s) |-> HexVal(s[i])]

RECURSIVE DecToNat(_)
DecToNat(s) ==
    IF s = <<>> THEN 0 ELSE 10 * DecToNat(SubSeq(s, 1, Len(s) - 1)) + HexVal(s[Len(s)])

\* An amount that denotes an integer v with 0 <= v < 2^256.
IsUint256(v) ==
    CASE v.t = "number" -> v.n >= 0
      [] v.t = "string" -> v.s # <<>> /\ \A i \in 1..Len(v.s) : IsDecChar(v.s[i])
      [] OTHER          -> ~v.neg /\ Len(v.mag) <= WordHexLen

\* An amount that denotes a negative integer or one above 2^256 - 1.
IsOutOfRange(v) ==
    CASE v.t = "number" -> v.n < 0
      [] v.t = "string" -> v.s # <<>> /\ v.s[1] = "-"
      [] OTHER          -> v.neg \/ Len(v.mag) > WordHexLen

\* The magnitude of the integer an in-range amount denotes.
ValueOf(v) ==
    CASE v.t = "number" -> NumberMag(v)
      [] v.t = "string" -> IF Len(v.s) <= 9 THEN NatToNibbles(DecToNat(v.s))
                           ELSE ParseBase10(v.s)
      [] OTHER          -> v.mag

\* C1: for every revert flag, 20-byte target, value below 2^256 and call data
\* of length L, txData returns 85 + L bytes: byte 0 the flag, bytes 1..20 the
\* address, bytes 21..52 the value big-endian, bytes 53..84 L big-endian, then
\* the call data unchanged.
C1_TxDataLayout ==
    (/\ op = "txData"
     /\ Len(TargetDigits(args.to)) = AddrHexLen
     /\ AllHex(TargetDigits(args.to))
     /\ IsUint256(args.amount))
    => LET b == ret.bytes
           L == Len(args.dataBuff)
       IN  /\ ~ret.thrown
           /\ Len(b) = 85 + L
           /\ b[1] = args.revert
           /\ BytesToNibbles(SubSeq(b, 2, 21)) = DigitsToNibbles(TargetDigits(args.to))
           /\ Norm(BytesToNibbles(SubSeq(b, 22, 53))) = ValueOf(args.amount)
           /\ NibblesToNat(Norm(BytesToNibbles(SubSeq(b, 54, 85)))) = L
           /\ SubSeq(b, 86, Len(b)) = args.dataBuff

C1_Witness ==
    /\ op = "txData"
    /\ ~ret.thrown
    /\ args.revert = 0
    /\ Len(TargetDigits(args.to)) = AddrHexLen
    /\ args.amount = Big(FALSE, Rep(15, 64))
    /\ Len(args.dataBuff) = MaxDataLen

\* C6: encoding a negative value or one above 2^256 - 1 fails and produces no
\* payload, and numToUint8Array32 never returns anything but 32 bytes.
C6_OutOfRangeRejected ==
    /\ (op = "txData" /\ IsOutOfRange(args.amount)) => ret.thrown
    /\ (op = "numToUint8Array32" /\ IsOutOfRange(args.amount)) => ret.thrown
    /\ (op = "numToUint8Array32" /\ ~ret.thrown) => Len(ret.bytes) = 32

ScenarioPayload ==
    <<"0", "x", "0", "1">> \o Rep("0", 39) \o <<"1">> \o Rep("0", 63) \o <<"1">>
    \o Rep("0", 63) \o <<"4">> \o <<"d", "e", "a", "d", "b", "e", "e", "f">>

IsScenario ==
    /\ op = "prepareInvokeData"
    /\ args.to = Target38
    /\ args.functionCall = <<"0", "x", "d", "e", "a", "d", "b", "e", "e", "f">>
    /\ args.amountStr = <<"1">>

\* C8: a target of fewer than 40 hex digits is padded on the left with zero
\* digits, so bytes 1..20 hold it right-aligned; the 38-digit scenario yields
\* the 89-byte payload above.
C8_ShortTargetPadded ==
    /\ (/\ op = "txData"
        /\ Len(TargetDigits(args.to)) < AddrHexLen
        /\ AllHex(TargetDigits(args.to))
        /\ ~ret.thrown)
       => LET digits == TargetDigits(args.to)
              field  == BytesToNibbles(SubSeq(ret.bytes, 2, 21))
              k      == AddrHexLen - Len(digits)
          IN  /\ \A i \in 1..k : field[i] = 0
              /\ SubSeq(field, k + 1, AddrHexLen) = DigitsToNibbles(digits)
    /\ IsScenario =>
          /\ ~ret.thrown
          /\ ret.data = ScenarioPayload
          /\ Len(ret.data) = 2 + 2 * 89

C8_Witness ==
    /\ IsScenario
    /\ ~ret.thrown
    /\ Len(ret.data) = 2 + 2 * 89

-----------------------------------------------------------------------------
(* getCosignerForAuthorized, one attempt at a time *)

Candidates ==
    { <<"0", "x", "7", "4", "2", "d">> \o Rep("0", 32) \o <<"f", "4", "4", "e">>,
      <<"0", "x", "A", "b", "C", "d">> \o Rep("9", 32) \o <<"E", "f", "0", "1">>,
      <<"0", "x">> \o Rep("0", 37) \o <<"a", "B", "c">> }

\* Raw authVersion values: version 1 and 5 with clear low bits, version 5
\* over low bits that are set, a value below 2^160, the largest 256-bit value.
AuthVersionMags ==
    { <<1>> \o Rep(0, 40),
      <<5>> \o Rep(0, 40),
      <<5>> \o Rep(0, 20) \o Rep(15, 20),
      <<1, 2>> \o Rep(7, 30),
      Rep(15, 64) }

\* Raw authorizations values: an address, an address with leading zeros, an
\* address under bits set above bit 159.
AuthorizedMags ==
    { <<7, 4, 2, 13>> \o Rep(0, 32) \o <<15, 4, 4, 14>>,
      <<10, 11, 12>>,
      <<1>> \o Rep(0, 23) \o <<10, 11, 12, 13>> \o Rep(9, 32) \o <<14, 15, 0, 1>> }

MalformedReads ==
    { JSUndefined, JSString(<<"5">>), JSString(<<>>), JSNumber(5), JSNumber(0) }

AuthVersionReads ==
    {JSBigInt(m) : m \in AuthVersionMags} \cup {JSBigInt(<<>>)} \cup MalformedReads

AuthorizationsReads ==
    {JSBigInt(m) : m \in AuthorizedMags} \cup {JSBigInt(<<>>)} \cup MalformedReads

AuthInit ==
    /\ bnStrict = TRUE
    /\ CodecIdle
    /\ AuthIdle
    /\ ethereum = "other"
    /\ AppIdle
    /\ LatestCopy

\* getCosignerForAuthorized(address, contract) is called and issues
\* contract.methods.authVersion().call().
AuthStart ==
    /\ authPc = "idle"
    /\ \E a \in Candidates : authAddress' = a
    /\ authPc' = "authVersion"
    /\ authReads' = Append(authReads, "authVersion")
    /\ UNCHANGED <<authVersionRet, authKeyArg, authRawRet, authResult, codecVars, appVars, uiVars>>

\* authVersion() resolves: getAuthVersion validates the value, the key is
\* computed and authorizations(key.toString()).call() is issued.
AuthVersionResolves ==
    /\ authPc = "authVersion"
    /\ \E v \in AuthVersionReads :
        /\ authVersionRet' = v
        /\ LET av == getAuthVersion(v)
           IN  IF av.thrown
               THEN /\ authPc' = "thrown"
                    /\ UNCHANGED <<authKeyArg, authReads>>
               ELSE /\ authPc' = "authorizations"
                    /\ authKeyArg' = BigIntToString(CosignerKey(av.mag, authAddress))
                    /\ authReads' = Append(authReads, "authorizations")
    /\ UNCHANGED <<authAddress, authRawRet, authResult, codecVars, appVars, uiVars>>

\* authVersion() rejects: the error leaves getCosignerForAuthorized.
AuthVersionRejects ==
    /\ authPc = "authVersion"
    /\ authVersionRet' = JSRejected
    /\ authPc' = "thrown"
    /\ UNCHANGED <<authAddress, authKeyArg, authRawRet, authResult, authReads, codecVars, appVars, uiVars>>

\* authorizations(key) resolves: the value is validated, masked and formatted.
AuthorizationsResolves ==
    /\ authPc = "authorizations"
    /\ \E w \in AuthorizationsReads :
        /\ authRawRet' = w
        /\ LET r == CosignerResult(w)
           IN  IF r.thrown
               THEN authPc' = "thrown" /\ UNCHANGED authResult
               ELSE authPc' = "returned" /\ authResult' = r.address
    /\ UNCHANGED <<authAddress, authVersionRet, authKeyArg, authReads, codecVars, appVars, uiVars>>

AuthorizationsRejects ==
    /\ authPc = "authorizations"
    /\ authRawRet' = JSRejected
    /\ authPc' = "thrown"
    /\ UNCHANGED <<authAddress, authVersionRet, authKeyArg, authResult, authReads, codecVars, appVars, uiVars>>

\* The promise has settled; the next lookup starts from scratch.
AuthSettled ==
    /\ authPc \in {"returned", "thrown"}
    /\ authPc' = "idle"
    /\ authAddress' = <<>>
    /\ authVersionRet' = JSNone
    /\ authKeyArg' = <<>>
    /\ authRawRet' = JSNone
    /\ authResult' = <<>>
    /\ authReads' = <<>>
    /\ UNCHANGED <<codecVars, appVars, uiVars>>

AuthNext ==
    \/ AuthStart
    \/ AuthVersionResolves
    \/ AuthVersionRejects
    \/ AuthorizationsResolves
    \/ AuthorizationsRejects
    \/ AuthSettled

SpecAuth == AuthInit /\ [][AuthNext]_vars

-----------------------------------------------------------------------------
(* Properties of the cosigner lookup *)

IsMalformed(v) == v.type \in {"undefined", "string", "number"}

\* C3: a read of authVersion() or authorizations(key) that is not an integer
\* makes getCosignerForAuthorized fail; no address is returned for it.
C3_MalformedReadThrows ==
    /\ IsMalformed(authVersionRet) =>
          (authPc = "thrown" /\ authResult = <<>> /\ authKeyArg = <<>>)
    /\ IsMalformed(authRawRet) => (authPc = "thrown" /\ authResult = <<>>)
    /\ authPc = "returned" =>
          (authVersionRet.type = "bigint" /\ authRawRet.type = "bigint")

C3_Witness ==
    /\ authPc = "thrown"
    /\ authVersionRet.type = "bigint"
    /\ authRawRet = JSString(<<"5">>)

\* The nibbles a decimal string denotes.
DecimalToNibbles(s) == ParseBase10(s)

\* The low 160 bits of a value as 40 nibbles, and the bits above them.
Low160(m) ==
    LET p == Rep(0, AddrHexLen) \o m
    IN  SubSeq(p, Len(p) - AddrHexLen + 1, Len(p))

High96(m) ==
    IF Len(m) <= AddrHexLen THEN <<>> ELSE SubSeq(m, 1, Len(m) - AddrHexLen)

\* C4: the key passed to authorizations() has the candidate address in its
\* low 160 bits and the raw authVersion shifted right by 160 above them; the
\* low 160 bits of the raw authVersion do not show in it.
C4_KeyPacksVersionAndAddress ==
    authKeyArg # <<>> =>
        LET key == DecimalToNibbles(authKeyArg)
        IN  /\ Low160(key) = DigitsToNibbles(SubSeq(authAddress, 3, Len(authAddress)))
            /\ High96(key) = High96(authVersionRet.mag)

C4_Witness ==
    /\ authPc = "authorizations"
    /\ authVersionRet = JSBigInt(<<5>> \o Rep(0, 20) \o Rep(15, 20))
    /\ High96(DecimalToNibbles(authKeyArg)) = <<5>>

\* C5: for every integer w that authorizations(key) returns, zero included,
\* the result is "0x" and the 40 lowercase hex digits of w mod 2^160.
C5_AddressForEveryInteger ==
    authRawRet.type = "bigint" =>
        /\ authPc = "returned"
        /\ authResult = <<"0", "x">> \o
              [i \in 1..AddrHexLen |-> HexChars[Low160(authRawRet.mag)[i] + 1]]

-----------------------------------------------------------------------------
(* App and AppView: sign-in, wallet linking and the relay *)

\* web3-validator isAddress: 40 hex digits after an optional "0x"; digits in
\* one case only need no checksum.
isAddress(s) ==
    LET d == IF Len(s) >= 2 /\ s[1] = "0" /\ s[2] = "x"
             THEN SubSeq(s, 3, Len(s)) ELSE s
    IN  /\ Len(d) = AddrHexLen
        /\ \A i \in 1..Len(d) : IsHexChar(d[i])
        /\ \/ \A i \in 1..Len(d) : d[i] = toLowerCaseChar(d[i])
           \/ \A i \in 1..Len(d) : d[i] \notin {"a", "b", "c", "d", "e", "f"}

\* getCosignerForAuthorized(address, contract) where authVersion().call()
\* settles as v and authorizations(key).call() as w.  The key built from
\* address (CosignerKey) goes to the contract, whose answer w is not
\* determined by the program.
getCosignerForAuthorized(address, v, w) ==
    LET av == getAuthVersion(v)
    IN  IF av.thrown THEN [thrown |-> TRUE, address |-> <<>>]
        ELSE CosignerResult(w)

\* cosigner?.toLowerCase() and walletAddress?.toLowerCase()
OptLowerCase(o) == IF o.def THEN Some(toLowerCase(o.s)) ELSE None

isAuthorizedCosignerPair(cosigner, walletAddress) ==
    OptLowerCase(cosigner) = OptLowerCase(walletAddress)

\* AppView renders the SetDapperWallet panel.
PanelShown == TruthyString(loggedIn) /\ ~isDapper

\* SetDapperWallet renders the input and the button.
FormShown == PanelShown /\ ~TruthyString(walletDetails.dapperWallet)

\* The Set Dapper Wallet button is enabled.
SaveEnabled ==
    /\ FormShown
    /\ isAddress(walletDetails.dapperWalletInput)
    /\ walletDetails.dapperWalletInput # <<>>

\* AppView renders the menu and the routes that receive invokeTx.
RoutesOffered ==
    /\ PanelShown
    /\ isAuthorizedCosignerPair(walletDetails.cosigner, loggedIn)
    /\ walletDetails.dapperWallet.def

\* The options of send().
SendOptions_fixedGas(walletAddress, gas) ==
    [from |-> walletAddress, gas |-> <<"2", "1", "0", "0", "0">>]

SendOptions(walletAddress, gas) ==
    [from |-> walletAddress, gas |-> BigIntToString(gas)]

(* Inputs of the application specification *)

Accounts ==
    { <<"0", "x", "7", "4", "2", "d">> \o Rep("0", 32) \o <<"f", "4", "4", "e">>,
      <<"0", "x", "A", "b", "C", "d">> \o Rep("9", 32) \o <<"E", "f", "0", "1">> }

WalletInputs ==
    { <<>>,
      <<"0", "x", "1", "2">>,
      <<"0", "x", "D", "A", "9">> \o Rep("0", 34) \o <<"5", "E", "F">> }

AppAuthVersionReads == { JSBigInt(<<1>> \o Rep(0, 40)), JSString(<<"1">>), JSRejected }

AppAuthorizationsReads ==
    {JSBigInt(BigIntOfHex(a)) : a \in Accounts} \cup {JSBigInt(<<>>), JSRejected}

InvokeTargets ==
    { <<"0", "x">> \o Rep("0", 37) \o <<"a", "b", "c">>, <<"0", "x", "z", "z">> }

NoMethod == [def |-> FALSE, throws |-> FALSE, abi |-> <<>>]

\* A method call whose encodeABI() returns 0xdeadbeef, and one whose
\* encodeABI() throws.
Methods ==
    { [def |-> TRUE, throws |-> FALSE,
       abi |-> <<"0", "x", "d", "e", "a", "d", "b", "e", "e", "f">>],
      [def |-> TRUE, throws |-> TRUE, abi |-> <<>>] }

\* The method and amount arguments of invokeTx: a transfer of one wei
\* (EthTransactions), a method call with amount '0' (the token forms), and
\* calls that leave the method out and the amount undefined or empty.
MethodAndAmount ==
    {<<NoMethod, Some(<<"1">>)>>, <<NoMethod, None>>, <<NoMethod, Some(<<>>)>>}
        \cup {<<m, Some(<<"0">>)>> : m \in Methods}

GasEstimates == { JSBigInt(NatToNibbles(21000)), JSBigInt(NatToNibbles(90000)) }

\* The amounts typed into EthTransactions, and those that convert to wei.
EthAmountInputs == { <<>>, <<"1">>, <<"0", ".", "5">>, <<"1", "x">> }

\* What utils.toWei makes of those that are numbers: 1 and 0.5 ether.
EthWeiAmounts == { <<"1">> \o Rep("0", 18), <<"5">> \o Rep("0", 17) }

\* prepareInvokeData over the arguments invokeTx can pass to it.
PreparedInvokeData ==
    [x \in (InvokeTargets \cup Accounts)
            \X {IF ma[1].def THEN ma[1].abi ELSE <<"0", "x">> : ma \in MethodAndAmount}
            \X ({IF TruthyString(ma[2]) THEN ma[2].s ELSE <<"0", "x", "0">> :
                    ma \in MethodAndAmount} \cup EthWeiAmounts)
            \X BOOLEAN
        |-> prepareInvokeData(x[1], x[2], x[3], x[4])]

\* One entry of the record of what an invokeTx call has done.
Ev(e, out, data, from, gas) ==
    [e |-> e, out |-> out, data |-> data, from |-> from, gas |-> gas]

SetLastOut(log, out) == [log EXCEPT ![Len(log)].out = out]

\* invokeTx up to its first await on the network: callData and value are
\* derived, the payload is built and estimateGas() is called.
InvokeTxBegin(walletAddress, dapperWallet, address, method, amount, strict) ==
    LET callData == IF method.def THEN method.abi ELSE <<"0", "x">>
        value    == IF TruthyString(amount) THEN amount.s ELSE <<"0", "x", "0">>
        p        == PreparedInvokeData[<<address, callData, value, strict>>]
        blank    == [pc |-> "rejected", walletAddress |-> walletAddress,
                     dapperWallet |-> dapperWallet, address |-> address,
                     callData |-> <<>>,
                     value |-> <<>>, data |-> <<>>, gas |-> <<>>, log |-> <<>>]
    IN  IF method.def /\ method.throws THEN blank
        ELSE IF p.thrown
        THEN [blank EXCEPT !.callData = callData, !.value = value,
                           !.log = <<Ev("prepareInvokeData", "failed", <<>>, <<>>, <<>>)>>]
        ELSE [blank EXCEPT !.pc = "estimateGas", !.callData = callData,
                           !.value = value, !.data = p.data,
                           !.log = <<Ev("prepareInvokeData", "ok", p.data, <<>>, <<>>),
                                     Ev("estimateGas", "pending", p.data, <<>>, <<>>)>>]

InvokeTxAfterEstimateGas_continues(c, outcome) ==
    LET gas == IF outcome.type = "rejected" THEN <<>> ELSE outcome.mag
        o   == SendOptions(c.walletAddress, gas)
    IN  [c EXCEPT !.pc = "send", !.gas = gas,
                  !.log = SetLastOut(c.log, IF outcome.type = "rejected"
                                            THEN "failed" ELSE "ok")
                          \o <<Ev("send", "pending", c.data, o.from, o.gas)>>]

\* invokeTx once estimateGas() has settled: a rejection leaves the function,
\* a result is passed to send().
InvokeTxAfterEstimateGas(c, outcome) ==
    IF outcome.type = "rejected"
    THEN [c EXCEPT !.pc = "rejected", !.log = SetLastOut(c.log, "failed")]
    ELSE LET o == SendOptions(c.walletAddress, outcome.mag)
         IN  [c EXCEPT !.pc = "send", !.gas = outcome.mag,
                       !.log = SetLastOut(c.log, "ok")
                               \o <<Ev("send", "pending", c.data, o.from, o.gas)>>]

InvokeTxAfterSend_resolves(c, ok) ==
    [c EXCEPT !.pc = "resolved", !.log = SetLastOut(c.log, IF ok THEN "ok" ELSE "failed")]

\* invokeTx once send() has settled.
InvokeTxAfterSend(c, ok) ==
    IF ok THEN [c EXCEPT !.pc = "resolved", !.log = SetLastOut(c.log, "ok")]
    ELSE [c EXCEPT !.pc = "rejected", !.log = SetLastOut(c.log, "failed")]

AppInit ==
    /\ bnStrict \in BOOLEAN
    /\ CodecIdle
    /\ AuthIdle
    /\ ethereum \in {"none", "dapper", "other"}
    /\ AppIdle
    /\ LatestCopy

\* Sign in is clicked and ethereum.enable() settles.  The effect on
\* [walletAddress] runs in the render that sees the new address: with
\* batched state updates it sees the new isDapper, otherwise the old one.
handleSignIn ==
    /\ alertOpen = "none"
    /\ ~TruthyString(loggedIn)
    /\ \/ /\ ethereum = "none"
          /\ alertOpen' = "Dapper wallet not found."
          /\ UNCHANGED <<loggedIn, isDapper, contract>>
       \/ /\ ethereum # "none"
          /\ alertOpen' = "Error during sign in"
          /\ UNCHANGED <<loggedIn, isDapper, contract>>
       \/ /\ ethereum # "none"
          /\ \E a \in Accounts, batched \in BOOLEAN :
              /\ loggedIn' = Some(a)
              /\ isDapper' = (ethereum = "dapper")
              /\ contract' = IF ~contract.def /\ (IF batched THEN isDapper' ELSE isDapper)
                             THEN Some(a) ELSE contract
          /\ UNCHANGED alertOpen
    /\ UNCHANGED <<codecVars, authVars, uiVars, ethereum, walletDetails, links, lookups, calls>>

\* Sign out is clicked: handleLogout clears loggedIn and nothing else.
handleSignOut ==
    /\ alertOpen = "none"
    /\ TruthyString(loggedIn)
    /\ loggedIn' = None
    /\ newAuthorized' = <<>>
    /\ authorizationSuccess' = FALSE
    /\ setAuthorizedSends' = [i \in 1..Len(setAuthorizedSends) |->
                                [setAuthorizedSends[i] EXCEPT !.unmounted = TRUE]]
    /\ UNCHANGED <<codecVars, authVars, tokenVars, pageVars, authorizationCopy, ethereum, isDapper, contract, walletDetails,
                   alertOpen, links, lookups, calls>>

\* The wallet address field is edited.
handleInputChange ==
    /\ alertOpen = "none"
    /\ FormShown
    /\ \E value \in WalletInputs :
        walletDetails' = [walletDetails EXCEPT !.dapperWalletInput = value]
    /\ UNCHANGED <<codecVars, authVars, uiVars, ethereum, loggedIn, isDapper, contract,
                   alertOpen, links, lookups, calls>>

\* Set Dapper Wallet is clicked: the lookup starts with the address and the
\* input of this render.
handleSetDapperWallet ==
    /\ alertOpen = "none"
    /\ SaveEnabled
    /\ links' = links \cup {[walletAddress |-> loggedIn.s,
                             input |-> walletDetails.dapperWalletInput]}
    /\ UNCHANGED <<codecVars, authVars, uiVars, ethereum, loggedIn, isDapper, contract,
                   walletDetails, alertOpen, lookups, calls>>

\* The lookup of a pending handleSetDapperWallet settles: the result is
\* stored over the state of that moment, a failure is reported by alert().
handleSetDapperWalletSettles ==
    /\ alertOpen = "none"
    /\ \E l \in links, v \in AppAuthVersionReads, w \in AppAuthorizationsReads :
        LET r == getCosignerForAuthorized(l.walletAddress, v, w)
        IN  /\ links' = links \ {l}
            /\ IF r.thrown
               THEN /\ alertOpen' = "Unable to set Dapper wallet address"
                    /\ UNCHANGED <<walletDetails, lookups>>
               ELSE /\ walletDetails' =
                          [walletDetails EXCEPT !.cosigner = Some(r.address),
                                                !.dapperWallet = Some(toLowerCase(l.input))]
                    /\ lookups' = lookups \cup
                          {[candidate |-> l.walletAddress, wallet |-> l.input,
                            result |-> r.address]}
                    /\ UNCHANGED alertOpen
    /\ UNCHANGED <<codecVars, authVars, uiVars, ethereum, loggedIn, isDapper, contract, calls>>

\* A form on one of the routes calls invokeTx(address, method, amount).
invokeTx ==
    /\ alertOpen = "none"
    /\ RoutesOffered
    /\ Cardinality(calls) < MaxCalls
    /\ \E address \in InvokeTargets, ma \in MethodAndAmount :
        IF walletDetails.dapperWallet.def
        THEN /\ calls' = calls \cup
                    {InvokeTxBegin(loggedIn.s, walletDetails.dapperWallet.s,
                                   address, ma[1], ma[2], bnStrict)}
             /\ UNCHANGED alertOpen
        ELSE /\ alertOpen' = "Unable to complete transaction"
             /\ UNCHANGED calls
    /\ UNCHANGED <<codecVars, authVars, uiVars, ethereum, loggedIn, isDapper, contract,
                   walletDetails, links, lookups>>

\* estimateGas() of a pending call settles.
EstimateGasSettles ==
    /\ alertOpen = "none"
    /\ \E c \in calls, outcome \in GasEstimates \cup {JSRejected} :
        /\ c.pc = "estimateGas"
        /\ calls' = (calls \ {c}) \cup {InvokeTxAfterEstimateGas(c, outcome)}
    /\ UNCHANGED <<codecVars, authVars, uiVars, ethereum, loggedIn, isDapper, contract,
                   walletDetails, alertOpen, links, lookups>>

\* send() of a pending call settles: mined, or rejected by the user or the node.
SendSettles ==
    /\ alertOpen = "none"
    /\ \E c \in calls, ok \in BOOLEAN :
        /\ c.pc = "send"
        /\ calls' = (calls \ {c}) \cup {InvokeTxAfterSend(c, ok)}
    /\ UNCHANGED <<codecVars, authVars, uiVars, ethereum, loggedIn, isDapper, contract,
                   walletDetails, alertOpen, links, lookups>>

\* The promise of a call has settled and the call is forgotten.
InvokeTxSettled ==
    /\ alertOpen = "none"
    /\ \E c \in calls :
        /\ c.pc \in {"resolved", "rejected"}
        /\ calls' = calls \ {c}
    /\ UNCHANGED <<codecVars, authVars, uiVars, ethereum, loggedIn, isDapper, contract,
                   walletDetails, alertOpen, links, lookups>>

\* alert() blocks the page until the dialog is dismissed.
AlertDismissed ==
    /\ alertOpen # "none"
    /\ alertOpen' = "none"
    /\ UNCHANGED <<codecVars, authVars, uiVars, ethereum, loggedIn, isDapper, contract,
                   walletDetails, links, lookups, calls>>

AppNext ==
    \/ handleSignIn
    \/ handleSignOut
    \/ handleInputChange
    \/ handleSetDapperWallet
    \/ handleSetDapperWalletSettles
    \/ invokeTx
    \/ EstimateGasSettles
    \/ SendSettles
    \/ InvokeTxSettled
    \/ AlertDismissed

SpecApp == AppInit /\ [][AppNext]_vars

-----------------------------------------------------------------------------
(* Properties of App and AppView *)

\* A lookup made with candidate a against wallet w has returned a itself.
LookupConfirms(a, w) ==
    \E l \in lookups :
        /\ l.candidate = a
        /\ toLowerCase(l.wallet) = toLowerCase(w)
        /\ toLowerCase(l.result) = toLowerCase(a)

\* C2: the relay routes are offered, and invoke0 is sent, only if a
\* getCosignerForAuthorized call made with the logged-in address as candidate
\* against that Dapper wallet has returned the same address (ignoring case).
C2_RelayOnlyAfterOwnLookup ==
    /\ RoutesOffered => LookupConfirms(loggedIn.s, walletDetails.dapperWallet.s)
    /\ \A c \in calls :
          Len(c.log) = 3 => LookupConfirms(c.walletAddress, c.dapperWallet)

\* What one invokeTx call has done, in order.
StepsInOrder(c) ==
    LET n == Len(c.log)
    IN  /\ n <= 3
        /\ n >= 1 => c.log[1].e = "prepareInvokeData"
        /\ n >= 2 => /\ c.log[2].e = "estimateGas"
                     /\ c.log[1].out = "ok"
                     /\ c.log[2].data = c.log[1].data
        /\ n >= 3 => /\ c.log[3].e = "send"
                     /\ c.log[2].out = "ok"
                     /\ c.log[3].data = c.log[2].data
                     /\ c.log[3].gas = BigIntToString(c.gas)
                     /\ c.log[3].from = c.walletAddress

\* The call has just been made.
JustCalled(c) == c.pc = "estimateGas" \/ (c.pc = "rejected" /\ Len(c.log) <= 1)

\* C9 (as amended): within one invokeTx call the payload is built, then gas
\* is estimated for it, then it is sent; the payload sent is the payload
\* estimated, send is called only once estimateGas has returned, with the
\* estimated gas, from the address that was logged in when invokeTx was called.
C9_InvokeTxOrder ==
    [][ \A c \in calls' \ calls :
           /\ StepsInOrder(c)
           /\ JustCalled(c) => loggedIn.def /\ c.walletAddress = loggedIn.s ]_vars

C9_Witness ==
    \E c \in calls :
        /\ c.pc = "send"
        /\ c.log[3].gas = <<"9", "0", "0", "0", "0">>
        /\ ~loggedIn.def

\* C9 (as stated): whenever send is called, its sender is the address logged
\* in at that moment.
C9_SenderIsLoggedIn ==
    [][ \A c \in calls' \ calls :
           c.pc = "send" => loggedIn.def /\ c.log[3].from = loggedIn.s ]_vars

Count(log, e) == Cardinality({i \in 1..Len(log) : log[i].e = e})

\* C10: a step of invokeTx that fails is the last step of the call and the
\* promise is rejected; estimateGas and send are each called at most once,
\* and a failed estimateGas is never followed by send.
C10_FailureEndsCall ==
    \A c \in calls :
        /\ \A i \in 1..Len(c.log) :
              c.log[i].out = "failed" => i = Len(c.log) /\ c.pc = "rejected"
        /\ Count(c.log, "estimateGas") <= 1
        /\ Count(c.log, "send") <= 1
        /\ c.pc = "resolved" => \A i \in 1..Len(c.log) : c.log[i].out = "ok"

C10_Witness ==
    \E c \in calls :
        /\ c.pc = "rejected"
        /\ Len(c.log) = 2
        /\ c.log[2].e = "estimateGas"
        /\ c.log[2].out = "failed"

\* The payloads a call has passed to invoke0, for estimateGas() or send().
Invoke0Payloads(c) ==
    {c.log[i].data : i \in {j \in 1..Len(c.log) : c.log[j].e \in {"estimateGas", "send"}}}

\* C11: every payload invokeTx passes to invoke0 starts with the byte 01
\* (revert on failure), whatever the target, the method and the amount.
C11_RevertFlagSet ==
    \A c \in calls : \A d \in Invoke0Payloads(c) :
        /\ Len(d) >= 4
        /\ SubSeq(d, 1, 4) = <<"0", "x", "0", "1">>

C11_Witness ==
    \E c \in calls :
        /\ c.pc = "send"
        /\ c.callData # <<"0", "x">>
        /\ SubSeq(c.log[3].data, 1, 4) = <<"0", "x", "0", "1">>

\* The hex digits of the bytes from..to (counted from 0) of a payload string.
PayloadField(d, from, to) == SubSeq(d, 3 + 2 * from, 4 + 2 * to)

\* C12: a call without a method carries empty call data (85 bytes, length
\* field zero); a call without an amount (undefined or '') to a valid target
\* builds a payload whose 32-byte value field is zero.
C12_DefaultsAreEmptyAndZero ==
    \A c \in calls :
        /\ (c.callData = <<"0", "x">> /\ c.data # <<>>) =>
              /\ Len(c.data) = 2 + 2 * HeaderLen
              /\ PayloadField(c.data, 53, 84) = Rep("0", WordHexLen)
        /\ (c.value = <<"0", "x", "0">> /\ isAddress(c.address)) =>
              /\ c.data # <<>>
              /\ PayloadField(c.data, 21, 52) = Rep("0", WordHexLen)

\* A read that did not give an integer the code accepts.
ReadFailed(v) == v.type = "rejected" \/ IsMalformed(v)

\* C13: one getCosignerForAuthorized attempt reads authVersion() once, then
\* authorizations(key) at most once; authorizations is queried only after
\* authVersion gave a valid integer; a failed read ends the attempt with an
\* error and nothing is read after it.
C13_ReadsOnceInOrder ==
    /\ authPc # "idle" =>
          authReads \in {<<"authVersion">>, <<"authVersion", "authorizations">>}
    /\ Len(authReads) = 2 =>
          /\ authVersionRet.type = "bigint"
          /\ authVersionRet.mag # <<>>
          /\ authKeyArg # <<>>
    /\ ReadFailed(authVersionRet) =>
          (authPc = "thrown" /\ authReads = <<"authVersion">> /\ authResult = <<>>)
    /\ ReadFailed(authRawRet) => (authPc = "thrown" /\ authResult = <<>>)
    /\ authPc = "returned" => (Len(authReads) = 2 /\ authRawRet.type = "bigint")

C13_Witness ==
    /\ authPc = "thrown"
    /\ authReads = <<"authVersion", "authorizations">>
    /\ authRawRet = JSRejected


-----------------------------------------------------------------------------
(* numToUint8Array32 as a codec of 256-bit integers *)

\* C14: for every integer 0 <= v < 2^256, given as a number, a decimal string
\* or a big integer, numToUint8Array32(v) returns 32 bytes that read big-endian
\* as v again.
C14_RoundTrip ==
    (op = "numToUint8Array32" /\ IsUint256(args.amount))
    => /\ ~ret.thrown
       /\ Len(ret.bytes) = 32
       /\ Norm(BytesToNibbles(ret.bytes)) = ValueOf(args.amount)
       /\ args.amount.t = "string"
            => BigIntToString(Norm(BytesToNibbles(ret.bytes)))
                 = (IF StripZeros(args.amount.s) = <<>> THEN <<"0">>
                    ELSE StripZeros(args.amount.s))

\* C15: numToUint8Array32(0) is 32 bytes 0x00 and numToUint8Array32(2^256 - 1)
\* is 32 bytes 0xFF.
C15_ExtremesEncode ==
    op = "numToUint8Array32"
    => /\ args.amount \in {Num(0), Str(<<"0">>), Big(FALSE, <<>>)}
            => ~ret.thrown /\ ret.bytes = Rep(0, 32)
       /\ args.amount \in {Str(MaxUint256Decimal), Big(FALSE, Rep(15, 64))}
            => ~ret.thrown /\ ret.bytes = Rep(255, 32)

C15_Witness ==
    /\ op = "numToUint8Array32"
    /\ args.amount = Str(MaxUint256Decimal)
    /\ ret.bytes = Rep(255, 32)


-----------------------------------------------------------------------------
(* The Authorization component under App and AppView *)

MaxSends == 2

\* AppView renders Authorization for a Dapper sign-in once contract is set.
AuthorizationShown == TruthyString(loggedIn) /\ isDapper /\ contract.def

\* String.prototype.startsWith.
startsWith(s, prefix) ==
    Len(s) >= Len(prefix) /\ SubSeq(s, 1, Len(prefix)) = prefix

FlowPrefix == <<"0", "x">> \o Rep("0", 16)

\* What is typed into the field: nothing, a fragment, an Ethereum address,
\* and an address-shaped string that begins like a Flow address.
NewAuthorizedInputs ==
    { <<>>,
      <<"0", "x", "9", "9">>,
      <<"0", "x", "9", "9", "9", "d">> \o Rep("3", 32) \o <<"f", "9", "9", "9">>,
      FlowPrefix \o Rep("1", 24) }

\* The form is rendered; the input carries no disabled attribute.
AuthorizationInputEnabled == AuthorizationShown /\ ~authorizationSuccess

\* The button is rendered and enabled.
AuthorizationSubmitEnabled ==
    AuthorizationInputEnabled /\ isAddress(newAuthorized)

SetAuthorizedSend_fromEntered(entered, walletAddress, wallet) ==
    [newAuthorized |-> entered, cosigner |-> entered, from |-> entered,
     value |-> <<"0", "x", "0">>, contract |-> wallet, pc |-> "pending",
     unmounted |-> FALSE]

\* contract.methods.setAuthorized(newAuthorized, newAuthorized)
\*     .send({ from: walletAddress, value: "0x0" })
SetAuthorizedSend(entered, walletAddress, wallet) ==
    [newAuthorized |-> entered, cosigner |-> entered, from |-> walletAddress,
     value |-> <<"0", "x", "0">>, contract |-> wallet, pc |-> "pending",
     unmounted |-> FALSE]

\* The copies of the component: the Flow-address check of one returns after
\* its alert, the check of the others goes on to send().
AuthorizationCopies == {"returns", "continues"}

AuthorizationInit ==
    /\ bnStrict = TRUE
    /\ CodecIdle
    /\ AuthIdle
    /\ ethereum \in {"none", "dapper", "other"}
    /\ AppIdle
    /\ authorizationCopy \in AuthorizationCopies

\* The address field of Authorization is edited.
Authorization_handleInputChange ==
    /\ alertOpen = "none"
    /\ AuthorizationInputEnabled
    /\ \E value \in NewAuthorizedInputs : newAuthorized' = value
    /\ UNCHANGED <<codecVars, authVars, appVars, tokenVars, pageVars, authorizationCopy, authorizationSuccess,
                   setAuthorizedSends>>

\* Set new authorized address is clicked.
handleSetAuthorized ==
    /\ alertOpen = "none"
    /\ AuthorizationSubmitEnabled
    /\ Len(setAuthorizedSends) < MaxSends
    /\ alertOpen' = IF startsWith(newAuthorized, FlowPrefix)
                    THEN "Is this a Flow wallet address?" ELSE "none"
    /\ IF startsWith(newAuthorized, FlowPrefix) /\ authorizationCopy = "returns"
       THEN UNCHANGED setAuthorizedSends
       ELSE setAuthorizedSends' = Append(setAuthorizedSends,
                    SetAuthorizedSend(newAuthorized, loggedIn.s, contract.s))
    /\ UNCHANGED <<codecVars, authVars, tokenVars, pageVars, authorizationCopy, ethereum, loggedIn, isDapper,
                   contract, walletDetails, links, lookups, calls, newAuthorized,
                   authorizationSuccess>>

\* send() settles: success is shown by the instance that sent, if it is
\* still mounted; a rejection is reported by alert().
SetAuthorizedSettles ==
    /\ alertOpen = "none"
    /\ \E i \in 1..Len(setAuthorizedSends), ok \in BOOLEAN :
        /\ setAuthorizedSends[i].pc = "pending"
        /\ setAuthorizedSends' =
                [setAuthorizedSends EXCEPT ![i].pc = IF ok THEN "resolved" ELSE "rejected"]
        /\ IF ok
           THEN /\ authorizationSuccess' =
                        (authorizationSuccess \/ ~setAuthorizedSends[i].unmounted)
                /\ UNCHANGED alertOpen
           ELSE /\ alertOpen' = "Error while setting new authorization"
                /\ UNCHANGED authorizationSuccess
    /\ UNCHANGED <<codecVars, authVars, tokenVars, pageVars, authorizationCopy, ethereum, loggedIn, isDapper,
                   contract, walletDetails, links, lookups, calls, newAuthorized>>

AuthorizationNext ==
    \/ handleSignIn
    \/ handleSignOut
    \/ AlertDismissed
    \/ Authorization_handleInputChange
    \/ handleSetAuthorized
    \/ SetAuthorizedSettles

SpecAuthorization == AuthorizationInit /\ [][AuthorizationNext]_vars

\* The sends of the mounted form that await the provider.
PendingSends ==
    {i \in 1..Len(setAuthorizedSends) :
        setAuthorizedSends[i].pc = "pending" /\ ~setAuthorizedSends[i].unmounted}

\* A send has gone from pending to pc in this step.
SendWent(pc) ==
    \E i \in 1..Len(setAuthorizedSends) :
        /\ setAuthorizedSends[i].pc = "pending"
        /\ Len(setAuthorizedSends') = Len(setAuthorizedSends)
        /\ setAuthorizedSends'[i].pc = pc

C17_DisabledWhilePending ==
    PendingSends # {}
    => /\ ~AuthorizationInputEnabled
       /\ ~AuthorizationSubmitEnabled
       /\ Cardinality(PendingSends) <= 1


-----------------------------------------------------------------------------
(* The ERC721 and CryptoPunk forms *)

TokenKinds == {"ERC721", "CryptoPunks"}

\* UnwrappedV2.addr, the address the CryptoPunk form starts with.
UnwrappedV2Addr ==
    << "0", "x", "b", "4", "7", "e", "3", "c", "d", "8", "3", "7", "d", "d",
       "f", "8", "e", "4", "c", "5", "7", "f", "0", "5", "d", "7", "0", "a",
       "b", "8", "6", "5", "d", "e", "6", "e", "1", "9", "3", "b", "b", "b" >>

\* The props of the mounted form.
walletAddressProp == loggedIn.s
dapperWalletAddressProp == walletDetails.dapperWallet.s

IsWhitespace(ch) == ch = " "

\* String.prototype.trim.
trim(s) ==
    IF \A i \in 1..Len(s) : IsWhitespace(s[i]) THEN <<>>
    ELSE LET a == CHOOSE i \in 1..Len(s) :
                    ~IsWhitespace(s[i]) /\ \A j \in 1..(i - 1) : IsWhitespace(s[j])
             b == CHOOSE i \in 1..Len(s) :
                    ~IsWhitespace(s[i]) /\ \A j \in (i + 1)..Len(s) : IsWhitespace(s[j])
         IN  SubSeq(s, a, b)

\* /^\d+$/.test(s)
IsDigits(s) == Len(s) > 0 /\ \A i \in 1..Len(s) : IsDecChar(s[i])

\* The effect on [formDetails.tokenId], run by the render that follows a
\* state update from prev to next.
TokenIdEffect_none(prev, next) == next

TokenIdEffect(prev, next) ==
    IF next.tokenId # prev.tokenId /\ next.transferrable
    THEN [next EXCEPT !.transferrable = FALSE]
    ELSE next

\* setFormDetails(prevState => ({ ...prevState, loading: true }))
StartLoading_none(fd) == fd

StartLoading(fd) == [fd EXCEPT !.loading = TRUE]

\* The branch of the render that holds the token-id form.
TokenFormShown ==
    /\ component \in TokenKinds
    /\ component = "ERC721" => tokenContract
    /\ ~formDetails.transferSuccess

ContractFormShown == component = "ERC721" /\ ~tokenContract

TokenIdInputEnabled == TokenFormShown /\ ~formDetails.loading

TransferButtonShown == TokenFormShown /\ formDetails.transferrable

CheckButtonShown == TokenFormShown /\ ~formDetails.transferrable

ActionButtonEnabled == TokenFormShown /\ ~formDetails.loading

NotOwnedAlert ==
    IF component = "ERC721" THEN "NFT not owned by this Dapper Wallet"
    ELSE "CryptoPunk not owned by this Dapper Wallet"

\* owner && owner.toString().toLowerCase() === dapperWalletAddress.toLowerCase()
OwnerIsDapperWallet(owner, dapperWalletAddress) ==
    owner # <<>> /\ toLowerCase(owner) = toLowerCase(dapperWalletAddress)

\* What is typed into the token-id field.
TokenIdInputs ==
    { <<>>, <<"1">>, <<" ", "1", " ">>, <<"2">>, <<"a", "b", "c">> }

NftContractInputs ==
    { <<"0", "x", "1", "2">>,
      <<"0", "x", "7", "2", "1">> \o Rep("0", 34) \o <<"7", "2", "1">> }

\* The optional ABI text: empty, or text that is not JSON.
ContractAbiInputs == { <<>>, <<"{">> }

TransferToInputs ==
    { <<>>, <<"0", "x", "5", "5", "5">> \o Rep("0", 34) \o <<"5", "5", "5">> }

\* What the ownership read gives: the Dapper wallet in another case, another
\* address, an empty answer, or a rejection.
OwnerAnswers ==
    { [rejected |-> FALSE, owner |-> <<"0", "x", "D", "A", "9">> \o Rep("0", 34) \o <<"5", "E", "F">>],
      [rejected |-> FALSE, owner |-> <<"0", "x", "7", "7", "7">> \o Rep("0", 34) \o <<"7", "7", "7">>],
      [rejected |-> FALSE, owner |-> <<>>],
      [rejected |-> TRUE, owner |-> <<>>] }

\* A signed-in cosigner with a linked Dapper wallet has opened one of the forms.
TokenInit ==
    /\ bnStrict = TRUE
    /\ CodecIdle
    /\ AuthIdle
    /\ AuthorizationIdle
    /\ LatestCopy
    /\ ethereum = "other"
    /\ isDapper = FALSE
    /\ contract = None
    /\ alertOpen = "none"
    /\ links = {}
    /\ calls = {}
    /\ \E a \in Accounts :
        LET w == <<"0", "x", "D", "A", "9">> \o Rep("0", 34) \o <<"5", "E", "F">>
        IN  /\ loggedIn = Some(a)
            /\ walletDetails = [dapperWallet |-> Some(toLowerCase(w)),
                                dapperWalletInput |-> w, cosigner |-> Some(a)]
            /\ lookups = {[candidate |-> a, wallet |-> w, result |-> a]}
            /\ component \in TokenKinds
            /\ tokenContract = (component = "CryptoPunks")
            /\ formDetails = initFormState(a, IF component = "CryptoPunks"
                                               THEN UnwrappedV2Addr ELSE <<>>)
    /\ ownerReads = {}
    /\ lastCheck = NoCheck
    /\ transfers = {}
    /\ lastTransfer = "none"
    /\ PagesIdle

tokenFrame == <<codecVars, authVars, authorizationVars, pageVars, ethereum, loggedIn, isDapper,
                contract, walletDetails, links, lookups, calls, component>>

\* A field of the form is edited: newState is a copy of this render's
\* formDetails with the one field replaced.
handleChange ==
    /\ alertOpen = "none"
    /\ ~formDetails.loading
    /\ \E changeParam \in {"tokenId", "contractAddress", "contractAbi", "transferTo"} :
        \/ /\ changeParam = "tokenId"
           /\ TokenFormShown
           /\ \E value \in TokenIdInputs :
                formDetails' = TokenIdEffect(formDetails,
                                             [formDetails EXCEPT !.tokenId = value])
        \/ /\ changeParam = "transferTo"
           /\ TransferButtonShown
           /\ \E value \in TransferToInputs :
                formDetails' = [formDetails EXCEPT !.transferTo = value]
        \/ /\ changeParam = "contractAddress"
           /\ ContractFormShown
           /\ \E value \in NftContractInputs :
                formDetails' = [formDetails EXCEPT !.contractAddress = value]
        \/ /\ changeParam = "contractAbi"
           /\ ContractFormShown
           /\ \E value \in ContractAbiInputs :
                formDetails' = [formDetails EXCEPT !.contractAbi = value]
    /\ UNCHANGED <<tokenFrame, alertOpen, tokenContract, ownerReads, lastCheck, transfers,
                   lastTransfer>>

\* set contract is clicked (ERC721): JSON.parse of a non-empty ABI that is
\* not JSON throws.
handleSetContract ==
    /\ alertOpen = "none"
    /\ ContractFormShown
    /\ ~formDetails.loading
    /\ isAddress(formDetails.contractAddress)
    /\ IF formDetails.contractAbi = <<>>
       THEN tokenContract' = TRUE /\ UNCHANGED alertOpen
       ELSE /\ alertOpen' = "something went wrong setting the ERC-721 contract"
            /\ UNCHANGED tokenContract
    /\ UNCHANGED <<tokenFrame, formDetails, ownerReads, lastCheck, transfers,
                   lastTransfer>>

\* check ownership is clicked.
handleCheckOwnership ==
    /\ alertOpen = "none"
    /\ CheckButtonShown
    /\ ActionButtonEnabled
    /\ IF IsDigits(trim(formDetails.tokenId)) /\ tokenContract
       THEN /\ formDetails' = StartLoading(formDetails)
            /\ ownerReads' = ownerReads \cup {[tokenId |-> trim(formDetails.tokenId)]}
            /\ UNCHANGED alertOpen
       ELSE /\ alertOpen' = "Invalid token id. Please try again."
            /\ UNCHANGED <<formDetails, ownerReads>>
    /\ UNCHANGED <<tokenFrame, tokenContract, lastCheck, transfers,
                   lastTransfer>>

\* The ownership read settles.  alert() only delays the finally block, in
\* which loading is cleared; nothing else runs while the dialog is open.
OwnerReadSettles ==
    /\ alertOpen = "none"
    /\ \E r \in ownerReads, answer \in OwnerAnswers :
        /\ ownerReads' = ownerReads \ {r}
        /\ IF answer.rejected
           THEN /\ alertOpen' = "An error occurred while checking ownership."
                /\ formDetails' = [formDetails EXCEPT !.loading = FALSE]
                /\ lastCheck' = [done |-> TRUE, rejected |-> TRUE,
                                 tokenId |-> r.tokenId, owner |-> <<>>,
                                 dapperWalletAddress |-> dapperWalletAddressProp]
           ELSE /\ lastCheck' = [done |-> TRUE, rejected |-> FALSE,
                                 tokenId |-> r.tokenId, owner |-> answer.owner,
                                 dapperWalletAddress |-> dapperWalletAddressProp]
                /\ IF OwnerIsDapperWallet(answer.owner, dapperWalletAddressProp)
                   THEN /\ formDetails' =
                              TokenIdEffect(formDetails,
                                  [formDetails EXCEPT !.tokenId = r.tokenId,
                                                      !.transferrable = TRUE,
                                                      !.loading = FALSE])
                        /\ UNCHANGED alertOpen
                   ELSE /\ alertOpen' = NotOwnedAlert
                        /\ formDetails' = [formDetails EXCEPT !.loading = FALSE]
    /\ UNCHANGED <<tokenFrame, tokenContract, transfers, lastTransfer>>

\* transfer token is clicked: the method call is built before the try
\* block, where an argument that is not an address throws.
handleTransfer ==
    /\ alertOpen = "none"
    /\ TransferButtonShown
    /\ ActionButtonEnabled
    /\ formDetails' = StartLoading(formDetails)
    /\ IF tokenContract /\ isAddress(formDetails.transferTo)
       THEN transfers' = transfers \cup
                {[address |-> formDetails.contractAddress,
                  from |-> dapperWalletAddressProp,
                  to |-> formDetails.transferTo,
                  tokenId |-> formDetails.tokenId,
                  amount |-> <<"0">>]}
       ELSE UNCHANGED transfers
    /\ UNCHANGED <<tokenFrame, alertOpen, tokenContract, ownerReads, lastCheck,
                   lastTransfer>>

AfterInvokeTx_success(fd, ok) ==
    [alert |-> "none",
     fd |-> [fd EXCEPT !.transferrable = FALSE, !.transferSuccess = TRUE,
                       !.loading = FALSE]]

\* handleTransfer once the promise of invokeTx has settled: the state
\* updates of the try, catch and finally blocks, and the alert of the catch.
AfterInvokeTx(fd, ok) ==
    IF ok
    THEN [alert |-> "none",
          fd |-> [fd EXCEPT !.transferrable = FALSE, !.transferSuccess = TRUE,
                            !.loading = FALSE]]
    ELSE [alert |-> "Failed to transfer. Please try again",
          fd |-> [fd EXCEPT !.loading = FALSE]]

\* The promise of invokeTx settles.
TransferSettles ==
    /\ alertOpen = "none"
    /\ \E x \in transfers, ok \in BOOLEAN :
        /\ transfers' = transfers \ {x}
        /\ lastTransfer' = IF ok THEN "resolved" ELSE "rejected"
        /\ formDetails' = AfterInvokeTx(formDetails, ok).fd
        /\ alertOpen' = AfterInvokeTx(formDetails, ok).alert
    /\ UNCHANGED <<tokenFrame, tokenContract, ownerReads, lastCheck>>

\* Reset form is clicked.  ERC721 passes initFormState itself to
\* setFormDetails, which calls it with the previous state as walletAddress.
ObjectValue == <<"[object Object]">>

resetForm ==
    /\ alertOpen = "none"
    /\ component \in TokenKinds
    /\ component = "ERC721" => tokenContract
    /\ formDetails.transferSuccess
    /\ formDetails' =
          TokenIdEffect(formDetails,
              IF component = "ERC721" THEN initFormState(ObjectValue, <<>>)
              ELSE initFormState(walletAddressProp, UnwrappedV2Addr))
    /\ UNCHANGED <<tokenFrame, alertOpen, tokenContract, ownerReads, lastCheck, transfers,
                   lastTransfer>>

TokenNext ==
    \/ handleChange
    \/ handleSetContract
    \/ handleCheckOwnership
    \/ OwnerReadSettles
    \/ handleTransfer
    \/ TransferSettles
    \/ resetForm
    \/ AlertDismissed

SpecToken == TokenInit /\ [][TokenNext]_vars


-----------------------------------------------------------------------------
(* Properties of the ERC721 and CryptoPunk forms *)

\* C18: while an ownership read or an invokeTx call of the form awaits the
\* provider, loading is true, the token-id input and the action button are
\* disabled, and the form has no second call in flight.
C18_DisabledWhileLoading ==
    (ownerReads # {} \/ transfers # {})
    => /\ formDetails.loading
       /\ ~TokenIdInputEnabled
       /\ ~ActionButtonEnabled
       /\ Cardinality(ownerReads) + Cardinality(transfers) = 1

C18_Witness ==
    /\ transfers # {}
    /\ formDetails.loading
    /\ TransferButtonShown

\* The last ownership read found the Dapper wallet as owner of tokenId.
Verified(tokenId) ==
    /\ lastCheck.done /\ ~lastCheck.rejected
    /\ lastCheck.tokenId = tokenId
    /\ lastCheck.dapperWalletAddress = dapperWalletAddressProp
    /\ OwnerIsDapperWallet(lastCheck.owner, dapperWalletAddressProp)

\* C19: a change of the token-id field leaves transferrable false; while the
\* transfer button is offered the token id is the last verified one; invokeTx
\* is called only for a transfer of that token id from the Dapper wallet.
C19_TransferOnlyVerified ==
    [][ /\ formDetails'.tokenId # formDetails.tokenId => ~formDetails'.transferrable
        /\ TransferButtonShown' => Verified(formDetails.tokenId)'
        /\ \A x \in transfers' \ transfers :
              /\ Verified(x.tokenId)
              /\ x.from = dapperWalletAddressProp ]_vars

C19_Witness ==
    /\ transfers # {}
    /\ \E x \in transfers : x.tokenId = <<"1">> /\ Verified(x.tokenId)

\* An ownership read has settled in this step with an answer.
OwnerReadAnswered == ownerReads # {} /\ ownerReads' = {} /\ ~lastCheck'.rejected

\* C20: after handleCheckOwnership on a token id of digits (with optional
\* surrounding whitespace) whose owner is the Dapper wallet in any case,
\* transferrable is true and the transfer button is offered; another owner
\* raises the 'not owned' alert and transferrable stays false; a token id
\* that is not all digits raises 'Invalid token id' and no read is made.
C20_CheckOwnership ==
    [][ /\ (OwnerReadAnswered
             /\ OwnerIsDapperWallet(lastCheck'.owner, dapperWalletAddressProp))
            => formDetails'.transferrable /\ TransferButtonShown'
        /\ (OwnerReadAnswered
             /\ ~OwnerIsDapperWallet(lastCheck'.owner, dapperWalletAddressProp))
            => alertOpen' = NotOwnedAlert /\ ~formDetails'.transferrable
        /\ (CheckButtonShown /\ ActionButtonEnabled /\ alertOpen = "none"
             /\ ~IsDigits(trim(formDetails.tokenId))
             /\ (formDetails'.loading \/ alertOpen' # "none"))
            => alertOpen' = "Invalid token id. Please try again."
               /\ ownerReads' = ownerReads ]_vars


\* The promise of an invokeTx call of the form has settled in this step.
TransferSettled == transfers # {} /\ transfers' # transfers /\ transfers' \subseteq transfers

\* C21: transferSuccess turns true only in the step in which invokeTx
\* resolves; when invokeTx rejects, the alert 'Failed to transfer. Please try
\* again' is raised, transferSuccess stays false, transferrable is unchanged
\* and loading is false again.
C21_TransferOutcome ==
    [][ /\ (formDetails'.transferSuccess /\ ~formDetails.transferSuccess)
            => TransferSettled /\ lastTransfer' = "resolved"
        /\ (TransferSettled /\ lastTransfer' = "rejected")
            => /\ alertOpen' = "Failed to transfer. Please try again"
               /\ ~formDetails'.transferSuccess
               /\ formDetails'.transferrable = formDetails.transferrable
               /\ ~formDetails'.loading ]_vars

C21_Witness ==
    /\ lastTransfer = "rejected"
    /\ alertOpen = "Failed to transfer. Please try again"
    /\ formDetails.transferrable
    /\ ~formDetails.loading

-----------------------------------------------------------------------------
(* CryptoKitties: the page with one loading flag for the form and the page  *)
(* with a loading flag per kitty.                                           *)

MaxRuns == 1

MaxKittyTxs == 1

KittiesVariants == {"formLoading", "kittyLoading"}

\* What totalSupply() of the core contract answers.
TotalSupplyAnswers == {1}

\* String.prototype.split with a one-character separator.
RECURSIVE split(_, _)
split(s, sep) ==
    IF \A i \in 1..Len(s) : s[i] # sep THEN <<s>>
    ELSE LET i == CHOOSE k \in 1..Len(s) :
                    s[k] = sep /\ \A j \in 1..(k - 1) : s[j] # sep
         IN  <<SubSeq(s, 1, i - 1)>> \o split(SubSeq(s, i + 1, Len(s)), sep)

\* parseInt of a string of decimal digits.
parseInt(s) == DecToNat(s)

isValidKittyId_digits(id, supply) == IsDigits(trim(id))

isValidKittyId(id, supply) ==
    IF ~IsDigits(trim(id)) THEN FALSE ELSE parseInt(trim(id)) <= supply

KittyStatus(id, error) ==
    [id |-> id, transferrable |-> FALSE, forSale |-> FALSE, forSire |-> FALSE,
     loading |-> FALSE, error |-> error, transferSuccess |-> FALSE,
     auctionCancelled |-> FALSE]

NotEmpty(id) == id # <<>>

\* value.split(',').map(id => id.trim()).filter(id => id !== '')
KittyIds(value) ==
    LET parts == split(value, ",")
    IN  SelectSeq([i \in 1..Len(parts) |-> trim(parts[i])], NotEmpty)

\* The rows handleChange builds; an absent error is the empty string.
NewKittyStatuses(value, supply) ==
    LET ids == KittyIds(value)
    IN  [i \in 1..Len(ids) |->
            KittyStatus(ids[i], IF ~isValidKittyId(ids[i], supply)
                                THEN "Invalid kitty ID" ELSE "")]

\* prev.map(status => status.id === id ? F(status) : status)
MapStatus(statuses, id, F(_)) ==
    [i \in 1..Len(statuses) |->
        IF statuses[i].id = id THEN F(statuses[i]) ELSE statuses[i]]

\* The ids checkAllKitties works through.
IdsToCheck(statuses) ==
    LET Valid(s) == IF kittiesVariant = "formLoading" THEN s.error = ""
                    ELSE s.error = "" \/ s.error # "Invalid kitty ID"
        valid == SelectSeq(statuses, Valid)
    IN  [i \in 1..Len(valid) |-> valid[i].id]

\* The row of an id when its check starts.
CheckStarts(s) ==
    IF kittiesVariant = "formLoading"
    THEN [s EXCEPT !.loading = TRUE, !.error = ""]
    ELSE [KittyStatus(s.id, "") EXCEPT !.loading = TRUE]

\* The row of an id when its check ends.
CheckEnds(s, outcome) ==
    CASE outcome = "transferrable" -> [s EXCEPT !.transferrable = TRUE, !.loading = FALSE]
      [] outcome = "forSale" -> [s EXCEPT !.forSale = TRUE, !.loading = FALSE]
      [] outcome = "forSire" -> [s EXCEPT !.forSire = TRUE, !.loading = FALSE]
      [] outcome = "notOwned" ->
            [s EXCEPT !.loading = FALSE, !.error = "Not owned by this Dapper Wallet"]
      [] OTHER ->
            [s EXCEPT !.loading = FALSE,
                      !.error = "An error occurred while checking ownership."]

\* The rows a run of checkAllKitties writes from: the current rows where the
\* update is a function of the previous state, the run's own copy otherwise.
RunBase(r) ==
    IF kittiesVariant = "formLoading" THEN kittyStatuses ELSE r.updatedStatuses

\* One id of a run is finished with the given outcome and the loop goes on
\* to the next id, up to its first await, or ends.
FinishKitty(r, outcome, answer) ==
    LET id       == r.ids[r.i]
        finished == MapStatus(RunBase(r), id, LAMBDA s : CheckEnds(s, outcome))
        more     == r.i < Len(r.ids)
        written  == IF more
                    THEN MapStatus(finished, r.ids[r.i + 1], CheckStarts)
                    ELSE finished
    IN  [statuses |-> written,
         checked  |-> [done |-> TRUE, id |-> id, log |-> Append(r.log, answer),
                       rows |-> {finished[k] : k \in {j \in 1..Len(finished) :
                                                        finished[j].id = id}}],
         run      |-> [r EXCEPT !.i = r.i + 1,
                                !.pc = IF more THEN "owner" ELSE "done",
                                !.log = <<>>,
                                !.updatedStatuses =
                                    IF kittiesVariant = "formLoading"
                                    THEN <<>> ELSE written]]

RemoveAt(s, n) == [i \in 1..(Len(s) - 1) |-> IF i < n THEN s[i] ELSE s[i + 1]]

\* The runs after run n has taken a step.
RunsAfter(n, r) ==
    IF r.pc = "done" THEN RemoveAt(checkRuns, n) ELSE [checkRuns EXCEPT ![n] = r]

\* What the page renders for a row.
RowShows(s) ==
    IF s.loading THEN "checking"
    ELSE IF s.error # "" THEN "error"
    ELSE IF s.transferSuccess THEN "transferred"
    ELSE IF s.auctionCancelled THEN "cancelled"
    ELSE "buttons"

TransferKittyOffered(s) ==
    /\ RowShows(s) = "buttons"
    /\ s.transferrable
    /\ IF kittiesVariant = "formLoading" THEN ~kittiesLoading ELSE ~s.loading

CancelAuctionOffered(s) ==
    /\ RowShows(s) = "buttons"
    /\ (s.forSale \/ s.forSire)
    /\ IF kittiesVariant = "formLoading" THEN ~kittiesLoading ELSE ~s.loading

KittyInputEnabled == kittiesVariant = "formLoading" => ~kittiesLoading

CheckKittiesEnabled ==
    IF kittiesVariant = "formLoading" THEN ~kittiesLoading
    ELSE \A i \in 1..Len(kittyStatuses) : ~kittyStatuses[i].loading

\* What is typed into the id input.
KittyIdInputs ==
    { <<"0", ",", "1">>, <<" ", "1", " ", ",", ",", "x">> }

KittiesInit ==
    /\ bnStrict = TRUE
    /\ CodecIdle
    /\ AuthIdle
    /\ AuthorizationIdle
    /\ LatestCopy
    /\ TokenIdle
    /\ ethereum = "other"
    /\ isDapper = FALSE
    /\ contract = None
    /\ alertOpen = "none"
    /\ links = {}
    /\ calls = {}
    /\ LET a == CHOOSE x \in Accounts : TRUE
           w == <<"0", "x", "D", "A", "9">> \o Rep("0", 34) \o <<"5", "E", "F">>
       IN  /\ loggedIn = Some(a)
           /\ walletDetails = [dapperWallet |-> Some(toLowerCase(w)),
                               dapperWalletInput |-> w, cosigner |-> Some(a)]
           /\ lookups = {[candidate |-> a, wallet |-> w, result |-> a]}
    /\ Erc20Idle
    /\ EthIdle
    /\ kittiesVariant \in KittiesVariants
    /\ totalSupply = 0
    /\ kittyId = <<>>
    /\ kittiesLoading = FALSE
    /\ kittyStatuses = <<>>
    /\ checkRuns = <<>>
    /\ kittyTxs = <<>>
    /\ lastChecked = NoKittyChecked

kittyFrame == <<codecVars, authVars, authorizationVars, tokenVars, erc20Vars, ethVars, ethereum, loggedIn,
                isDapper, contract, walletDetails, links, lookups, calls,
                kittiesVariant>>

\* totalSupply() of the effect's init() has answered.
TotalSupplySettles ==
    /\ alertOpen = "none"
    /\ totalSupply = 0
    /\ \E n \in TotalSupplyAnswers : totalSupply' = n
    /\ UNCHANGED <<kittyFrame, alertOpen, kittyId, kittiesLoading, kittyStatuses,
                   checkRuns, kittyTxs>>
    /\ lastChecked' = NoKittyChecked

\* The id input is changed.
Kitties_handleChange ==
    /\ alertOpen = "none"
    /\ KittyInputEnabled
    /\ \E value \in KittyIdInputs :
        /\ value # kittyId
        /\ kittyId' = value
        /\ kittyStatuses' = NewKittyStatuses(value, totalSupply)
    /\ lastChecked' = NoKittyChecked
    /\ UNCHANGED <<kittyFrame, alertOpen, totalSupply, kittiesLoading, checkRuns,
                   kittyTxs>>

\* Check Kitties is clicked: the loop runs up to its first await.
checkAllKitties ==
    /\ alertOpen = "none"
    /\ CheckKittiesEnabled
    /\ Len(checkRuns) < MaxRuns
    /\ LET ids     == IdsToCheck(kittyStatuses)
           written == MapStatus(kittyStatuses, ids[1], CheckStarts)
       IN  /\ ids # <<>>
           /\ kittyStatuses' = written
           /\ checkRuns' = Append(checkRuns,
                                  [ids |-> ids, i |-> 1, pc |-> "owner", log |-> <<>>,
                                   updatedStatuses |->
                                       IF kittiesVariant = "formLoading"
                                       THEN <<>> ELSE written])
    /\ lastChecked' = NoKittyChecked
    /\ UNCHANGED <<kittyFrame, alertOpen, totalSupply, kittyId, kittiesLoading,
                   kittyTxs>>

\* ownerOf() of a run has settled.
KittyOwnerSettles ==
    /\ alertOpen = "none"
    /\ \E n \in 1..Len(checkRuns), answer \in OwnerAnswers :
        LET r   == checkRuns[n]
            own == ~answer.rejected
                   /\ OwnerIsDapperWallet(answer.owner, dapperWalletAddressProp)
            q   == [q |-> "ownerOf",
                    a |-> IF answer.rejected THEN "rejected"
                          ELSE IF own THEN "dapper" ELSE "other"]
            f   == FinishKitty(r, IF own THEN "transferrable" ELSE "failed", q)
        IN  /\ r.pc = "owner"
            /\ IF answer.rejected \/ own
               THEN /\ kittyStatuses' = f.statuses
                    /\ lastChecked' = f.checked
                    /\ checkRuns' = RunsAfter(n, f.run)
               ELSE /\ checkRuns' = [checkRuns EXCEPT ![n].pc = "sale",
                                                      ![n].log = Append(r.log, q)]
                    /\ lastChecked' = NoKittyChecked
                    /\ UNCHANGED kittyStatuses
    /\ UNCHANGED <<kittyFrame, alertOpen, totalSupply, kittyId, kittiesLoading, kittyTxs>>

\* checkAuction() of a run has settled: getAuction() answered or was rejected.
checkAuctionSettles ==
    /\ alertOpen = "none"
    /\ \E n \in 1..Len(checkRuns), isInAuction \in BOOLEAN :
        LET r == checkRuns[n]
            q == [q |-> r.pc, a |-> IF isInAuction THEN "auction" ELSE "none"]
            f == FinishKitty(r, IF ~isInAuction THEN "notOwned"
                                ELSE IF r.pc = "sale" THEN "forSale" ELSE "forSire", q)
        IN  /\ r.pc \in {"sale", "sire"}
            /\ IF isInAuction \/ r.pc = "sire"
               THEN /\ kittyStatuses' = f.statuses
                    /\ lastChecked' = f.checked
                    /\ checkRuns' = RunsAfter(n, f.run)
               ELSE /\ checkRuns' = [checkRuns EXCEPT ![n].pc = "sire",
                                                      ![n].log = Append(r.log, q)]
                    /\ lastChecked' = NoKittyChecked
                    /\ UNCHANGED kittyStatuses
    /\ UNCHANGED <<kittyFrame, alertOpen, totalSupply, kittyId, kittiesLoading, kittyTxs>>

\* The page once a transfer or a cancellation has been started for an id.
KittyTxStarts(id) ==
    IF kittiesVariant = "formLoading"
    THEN [loading |-> TRUE, statuses |-> kittyStatuses]
    ELSE [loading |-> kittiesLoading,
          statuses |-> MapStatus(kittyStatuses, id, LAMBDA s : [s EXCEPT !.loading = TRUE])]

\* Transfer Kitty of a row is clicked.
Kitties_handleTransfer ==
    /\ alertOpen = "none"
    /\ Len(kittyTxs) < MaxKittyTxs
    /\ \E k \in 1..Len(kittyStatuses) :
        LET s == kittyStatuses[k]
        IN  /\ TransferKittyOffered(s)
            /\ kittiesLoading' = KittyTxStarts(s.id).loading
            /\ kittyStatuses' = KittyTxStarts(s.id).statuses
            /\ kittyTxs' = Append(kittyTxs, [kind |-> "transfer", id |-> s.id,
                                             address |-> "Core", to |-> walletAddressProp])
    /\ lastChecked' = NoKittyChecked
    /\ UNCHANGED <<kittyFrame, alertOpen, totalSupply, kittyId, checkRuns>>

\* Cancel Sale Auction or Cancel Sire Auction of a row is clicked.
handleCancelAuction ==
    /\ alertOpen = "none"
    /\ Len(kittyTxs) < MaxKittyTxs
    /\ \E k \in 1..Len(kittyStatuses) :
        LET s == kittyStatuses[k]
        IN  /\ CancelAuctionOffered(s)
            /\ kittiesLoading' = KittyTxStarts(s.id).loading
            /\ kittyStatuses' = KittyTxStarts(s.id).statuses
            /\ kittyTxs' = Append(kittyTxs, [kind |-> "cancelAuction", id |-> s.id,
                                             address |-> IF s.forSale THEN "Sale" ELSE "Sire",
                                             to |-> <<>>])
    /\ lastChecked' = NoKittyChecked
    /\ UNCHANGED <<kittyFrame, alertOpen, totalSupply, kittyId, checkRuns>>

\* The row of an id once invokeTx has settled.
KittyTxEnds(s, kind, ok) ==
    LET done == IF ~ok
                THEN [s EXCEPT !.error = IF kind = "transfer"
                                         THEN "Failed to transfer. Please try again."
                                         ELSE "Failed to cancel auction. Please try again."]
                ELSE IF kind = "transfer" THEN [s EXCEPT !.transferSuccess = TRUE]
                ELSE [s EXCEPT !.auctionCancelled = TRUE]
    IN  IF kittiesVariant = "formLoading" THEN done ELSE [done EXCEPT !.loading = FALSE]

\* The promise of invokeTx of a transfer or a cancellation settles.
KittyTxSettles ==
    /\ alertOpen = "none"
    /\ \E n \in 1..Len(kittyTxs), ok \in BOOLEAN :
        LET x == kittyTxs[n]
        IN  /\ kittyTxs' = RemoveAt(kittyTxs, n)
            /\ kittyStatuses' = MapStatus(kittyStatuses, x.id,
                                          LAMBDA s : KittyTxEnds(s, x.kind, ok))
            /\ IF kittiesVariant = "formLoading"
               THEN /\ kittiesLoading' = FALSE
                    /\ alertOpen' = IF ok THEN "none"
                                    ELSE IF x.kind = "transfer"
                                    THEN "Failed to transfer. Please try again."
                                    ELSE "Failed to cancel auction. Please try again."
               ELSE UNCHANGED <<kittiesLoading, alertOpen>>
    /\ lastChecked' = NoKittyChecked
    /\ UNCHANGED <<kittyFrame, totalSupply, kittyId, checkRuns>>

KittiesNext ==
    \/ TotalSupplySettles
    \/ Kitties_handleChange
    \/ checkAllKitties
    \/ KittyOwnerSettles
    \/ checkAuctionSettles
    \/ Kitties_handleTransfer
    \/ handleCancelAuction
    \/ KittyTxSettles
    \/ AlertDismissed

SpecKitties == KittiesInit /\ [][KittiesNext]_vars

-----------------------------------------------------------------------------
(* Properties of the CryptoKitties pages *)

StatusIds(statuses) == [i \in 1..Len(statuses) |-> statuses[i].id]

\* The outcomes a row shows: transferrable, forSale, forSire, an error.
OutcomesSet(s) ==
    {o \in {"transferrable", "forSale", "forSire", "error"} :
        \/ o = "transferrable" /\ s.transferrable
        \/ o = "forSale" /\ s.forSale
        \/ o = "forSire" /\ s.forSire
        \/ o = "error" /\ s.error # ""}

\* C22: the check of an id reads ownerOf first, asks the sale auction only
\* when the owner is not the Dapper wallet and the sire auction only when
\* there is no sale auction; when the check of the id has finished its row
\* has loading false and exactly one of transferrable, forSale, forSire and
\* a non-empty error.
C22_CheckOrderAndOutcome ==
    lastChecked.done =>
        LET log == lastChecked.log
        IN  /\ Len(log) \in 1..3
            /\ log[1].q = "ownerOf"
            /\ Len(log) >= 2 => log[2].q = "sale" /\ log[1].a = "other"
            /\ Len(log) >= 3 => log[3].q = "sire" /\ log[2].a = "none"
            /\ \A s \in lastChecked.rows :
                  ~s.loading /\ Cardinality(OutcomesSet(s)) = 1

\* An entry of the id input that is not all digits or is greater than
\* totalSupply.
EntryIsInvalid(id, supply) == ~IsDigits(id) \/ DecToNat(id) > supply

C28_PendingKeepsLoading ==
    [][ (kittiesVariant = "kittyLoading" /\ kittyId' = kittyId /\ kittyTxs' = kittyTxs) =>
            \A n \in 1..Len(kittyTxs) : \A k \in 1..Len(kittyStatuses) :
                (kittyStatuses[k].id = kittyTxs[n].id /\ kittyStatuses[k].loading) =>
                    /\ k <= Len(kittyStatuses')
                    /\ kittyStatuses'[k].id = kittyTxs[n].id
                    /\ kittyStatuses'[k].loading ]_vars

-----------------------------------------------------------------------------
(* ERC20 page *)

\* The characters of the inputs in the order of their UTF-16 code units.
CodeUnitOrder ==
    <<" ", ",", ".", "0", "1", "2", "3", "4", "5", "6", "7", "8", "9", "a", "b", "c", "x">>

CodeUnit(c) == CHOOSE i \in 1..Len(CodeUnitOrder) : CodeUnitOrder[i] = c

\* a > b on two JavaScript strings: by code units, a proper prefix is less.
RECURSIVE StringGreater(_, _)
StringGreater(a, b) ==
    IF a = <<>> THEN FALSE
    ELSE IF b = <<>> THEN TRUE
    ELSE IF a[1] # b[1] THEN CodeUnit(a[1]) > CodeUnit(b[1])
    ELSE StringGreater(Tail(a), Tail(b))

\* s.replace(/0+$/, '')
RECURSIVE StripTrailingZeros(_)
StripTrailingZeros(s) ==
    IF s # <<>> /\ s[Len(s)] = "0" THEN StripTrailingZeros(SubSeq(s, 1, Len(s) - 1))
    ELSE s

EtherDecimals == 18

\* utils.fromWei(value, 'ether') of a string of decimal digits.
fromWei(value) ==
    LET padded   == padStart(value, EtherDecimals, "0")
        integer  == SubSeq(padded, 1, Len(padded) - EtherDecimals)
        fraction == StripTrailingZeros(SubSeq(padded, Len(padded) - EtherDecimals + 1,
                                              Len(padded)))
    IN  IF integer = <<>> THEN <<"0", ".">> \o fraction
        ELSE IF fraction = <<>> THEN integer
        ELSE integer \o <<".">> \o fraction

\* digits, or digits '.' digits with at most 18 decimals
IsDecimalAmount(s) ==
    LET parts == split(s, ".")
    IN  /\ Len(parts) \in {1, 2}
        /\ IsDigits(parts[1])
        /\ Len(parts) = 2 => IsDigits(parts[2]) /\ Len(parts[2]) <= EtherDecimals

\* utils.toWei(amount, 'ether'): the digits of the amount in the smallest
\* unit; a string that is not a number throws.
toWei(amount) ==
    IF ~IsDecimalAmount(amount) THEN [thrown |-> TRUE, wei |-> <<>>]
    ELSE LET parts    == split(amount, ".")
             fraction == IF Len(parts) = 2 THEN parts[2] ELSE <<>>
             digits   == StripZeros(parts[1] \o fraction
                                    \o Rep("0", EtherDecimals - Len(fraction)))
         IN  [thrown |-> FALSE, wei |-> IF digits = <<>> THEN <<"0">> ELSE digits]

formatBalance(balance) ==
    IF fromWei(balance) = <<"0", ".">> THEN <<"0">> ELSE fromWei(balance)

\* /^[0.]*$/.test(amount)
IsZerosAndDots(amount) == \A i \in 1..Len(amount) : amount[i] \in {"0", "."}

isSubmitButtonDisabled_numeric(amount) ==
    \/ erc20Form.loading
    \/ amount = <<>>
    \/ IsZerosAndDots(amount)
    \/ /\ IsDecimalAmount(amount)
       /\ LET a == StripZeros(toWei(amount).wei)
              b == StripZeros(erc20Balance)
          IN  Len(a) > Len(b) \/ (Len(a) = Len(b) /\ StringGreater(a, b))

isSubmitButtonDisabled(amount) ==
    \/ erc20Form.loading
    \/ amount = <<>>
    \/ StringGreater(amount, formatBalance(erc20Balance))
    \/ IsZerosAndDots(amount)

Erc20ContractFormShown == ~erc20Contract

Erc20AmountShown == erc20Contract /\ ~erc20Form.transferSuccess

\* What is typed into the amount field.
Erc20AmountInputs ==
    { <<>>, <<"0">>, <<"9">>, <<"1", "0">>, <<"1", ".", "5">>, <<"1", "x">> }

\* What balanceOf() answers, in the smallest unit: 0, 9 and 10 tokens.
Erc20BalanceAnswers ==
    { <<"0">>, <<"9">> \o Rep("0", 18), <<"1", "0">> \o Rep("0", 18) }

Erc20Init ==
    /\ bnStrict = TRUE
    /\ CodecIdle
    /\ AuthIdle
    /\ AuthorizationIdle
    /\ LatestCopy
    /\ TokenIdle
    /\ KittiesIdle
    /\ EthIdle
    /\ ethereum = "other"
    /\ isDapper = FALSE
    /\ contract = None
    /\ alertOpen = "none"
    /\ links = {}
    /\ calls = {}
    /\ LET a == CHOOSE x \in Accounts : TRUE
           w == <<"0", "x", "D", "A", "9">> \o Rep("0", 34) \o <<"5", "E", "F">>
       IN  /\ loggedIn = Some(a)
           /\ walletDetails = [dapperWallet |-> Some(toLowerCase(w)),
                               dapperWalletInput |-> w, cosigner |-> Some(a)]
           /\ lookups = {[candidate |-> a, wallet |-> w, result |-> a]}
    /\ Erc20Idle

erc20Frame == <<codecVars, authVars, authorizationVars, tokenVars, kittyVars, ethVars, ethereum,
                loggedIn, isDapper, contract, walletDetails, links, lookups, calls>>

\* The contract address or the amount is changed.
Erc20_handleChange ==
    /\ alertOpen = "none"
    /\ ~erc20Form.loading
    /\ \/ /\ Erc20ContractFormShown
          /\ \E value \in NftContractInputs :
              /\ value # erc20Form.contractAddress
              /\ erc20Form' = [erc20Form EXCEPT !.contractAddress = value]
       \/ /\ Erc20AmountShown
          /\ \E value \in Erc20AmountInputs :
              /\ value # erc20Form.amount
              /\ erc20Form' = [erc20Form EXCEPT !.amount = value]
    /\ UNCHANGED <<erc20Frame, alertOpen, erc20Contract, erc20Balance, erc20Pending>>

\* set contract is clicked; the effect on [contract] reads the balance.
Erc20_handleSetContract ==
    /\ alertOpen = "none"
    /\ Erc20ContractFormShown
    /\ ~erc20Form.loading
    /\ isAddress(erc20Form.contractAddress)
    /\ erc20Form.contractAddress # <<>>
    /\ erc20Contract' = TRUE
    /\ erc20Pending' = erc20Pending \cup {[call |-> "balanceOf", amount |-> <<>>]}
    /\ UNCHANGED <<erc20Frame, alertOpen, erc20Balance, erc20Form>>

\* balanceOf() of getTokenBalance has answered.
Erc20BalanceSettles ==
    /\ alertOpen = "none"
    /\ \E x \in erc20Pending, answer \in Erc20BalanceAnswers :
        /\ x.call = "balanceOf"
        /\ erc20Pending' = erc20Pending \ {x}
        /\ erc20Balance' = answer
    /\ UNCHANGED <<erc20Frame, alertOpen, erc20Contract, erc20Form>>

\* transfer tokens is clicked: the amount is converted and the method call
\* built before the try block.
Erc20_handleTransfer ==
    /\ alertOpen = "none"
    /\ Erc20AmountShown
    /\ ~isSubmitButtonDisabled(erc20Form.amount)
    /\ erc20Form' = [erc20Form EXCEPT !.loading = TRUE]
    /\ IF toWei(erc20Form.amount).thrown
       THEN UNCHANGED erc20Pending
       ELSE erc20Pending' = erc20Pending \cup
                {[call |-> "invokeTx", amount |-> toWei(erc20Form.amount).wei]}
    /\ UNCHANGED <<erc20Frame, alertOpen, erc20Contract, erc20Balance>>

\* The promise of invokeTx settles.
Erc20TransferSettles ==
    /\ alertOpen = "none"
    /\ \E x \in erc20Pending, ok \in BOOLEAN :
        /\ x.call = "invokeTx"
        /\ erc20Pending' = erc20Pending \ {x}
        /\ erc20Form' = [erc20Form EXCEPT !.loading = FALSE,
                                          !.transferSuccess = IF ok THEN TRUE ELSE @]
        /\ alertOpen' = IF ok THEN "none" ELSE "Failed to transfer. Please try again"
    /\ UNCHANGED <<erc20Frame, erc20Contract, erc20Balance>>

\* reset or Reset form is clicked.
Erc20_resetForm ==
    /\ alertOpen = "none"
    /\ erc20Contract
    /\ erc20Contract' = FALSE
    /\ erc20Balance' = <<"0">>
    /\ erc20Form' = Erc20InitFormState
    /\ UNCHANGED <<erc20Frame, alertOpen, erc20Pending>>

Erc20Next ==
    \/ Erc20_handleChange
    \/ Erc20_handleSetContract
    \/ Erc20BalanceSettles
    \/ Erc20_handleTransfer
    \/ Erc20TransferSettles
    \/ Erc20_resetForm
    \/ AlertDismissed

SpecERC20 == Erc20Init /\ [][Erc20Next]_vars

\* C24: the transfer button is disabled whenever loading is true, the amount
\* is empty, the amount is zero or the amount is numerically greater than
\* the balance, and enabled for every positive amount that does not exceed
\* the balance.
C24_SubmitDisabled ==
    (Erc20AmountShown /\ (erc20Form.amount = <<>> \/ IsDecimalAmount(erc20Form.amount))) =>
        (isSubmitButtonDisabled(erc20Form.amount)
            <=> isSubmitButtonDisabled_numeric(erc20Form.amount))


\* C25: handleSetAuthorized never sends setAuthorized for an address that
\* starts with 0x0000000000000000: in every copy of the component the alert
\* about a Flow address is raised and no send is made.
C25_NoSendForFlowAddress ==
    /\ \A i \in 1..Len(setAuthorizedSends) :
          ~startsWith(setAuthorizedSends[i].newAuthorized, FlowPrefix)
    /\ alertOpen = "Is this a Flow wallet address?" =>
          startsWith(newAuthorized, FlowPrefix)


-----------------------------------------------------------------------------
(* EthTransactions: the form that moves ether out of the Dapper wallet *)

\* The text of the green paragraph.
SuccessMessage(amount, recipient) ==
    <<"Successfully transferred ">> \o amount \o <<" ETH to ">> \o recipient

\* The Transfer ETH button is enabled.
EthTransferEnabled ==
    /\ ~ethTransactions.loading
    /\ ethTransactions.recipient # <<>>
    /\ ethTransactions.amount # <<>>

\* The green paragraph is on the page.
SuccessShown ==
    /\ ethTransactions.successMessage.def
    /\ ethTransactions.successMessage.s # <<>>

\* The recipients typed into EthTransactions.
EthRecipientInputs == InvokeTargets \cup {<<>>}

\* handleTransfer of EthTransactions after the await on invokeTx: the
\* message on success, the alert in the catch block, loading cleared in
\* the finally block.
EthAfterInvokeTx(state, resolved) ==
    [alert |-> IF resolved THEN "none" ELSE "Failed to transfer ETH. Please try again.",
     state |-> [state EXCEPT !.loading = FALSE,
                             !.successMessage =
                                 IF resolved
                                 THEN Some(SuccessMessage(state.amount, state.recipient))
                                 ELSE @]]

\* The page is open on /transactions for a signed-in cosigner of a linked
\* Dapper wallet.
EthInit ==
    /\ bnStrict = TRUE
    /\ CodecIdle
    /\ AuthIdle
    /\ AuthorizationIdle
    /\ LatestCopy
    /\ TokenIdle
    /\ KittiesIdle
    /\ Erc20Idle
    /\ ethereum = "other"
    /\ isDapper = FALSE
    /\ contract = None
    /\ alertOpen = "none"
    /\ links = {}
    /\ calls = {}
    /\ \E a \in Accounts :
        LET w == <<"0", "x", "D", "A", "9">> \o Rep("0", 34) \o <<"5", "E", "F">>
        IN  /\ loggedIn = Some(a)
            /\ walletDetails = [dapperWallet |-> Some(toLowerCase(w)),
                                dapperWalletInput |-> w, cosigner |-> Some(a)]
            /\ lookups = {[candidate |-> a, wallet |-> w, result |-> a]}
            /\ ethTransactions = EthInitState(a)

ethFrame == <<codecVars, authVars, authorizationVars, tokenVars, kittyVars, erc20Vars,
              ethereum, loggedIn, isDapper, contract, walletDetails, links, lookups>>

\* The recipient field is edited.
setRecipient ==
    /\ alertOpen = "none"
    /\ RoutesOffered
    /\ ~ethTransactions.loading
    /\ \E value \in EthRecipientInputs :
        /\ value # ethTransactions.recipient
        /\ ethTransactions' = [ethTransactions EXCEPT !.recipient = value]
    /\ UNCHANGED <<ethFrame, alertOpen, calls>>

\* The amount field is edited.
setAmount ==
    /\ alertOpen = "none"
    /\ RoutesOffered
    /\ ~ethTransactions.loading
    /\ \E value \in EthAmountInputs :
        /\ value # ethTransactions.amount
        /\ ethTransactions' = [ethTransactions EXCEPT !.amount = value]
    /\ UNCHANGED <<ethFrame, alertOpen, calls>>

\* Transfer ETH is clicked: loading is set and the message cleared, the
\* amount is converted inside the try block and invokeTx is called.  Without
\* a Dapper wallet invokeTx shows its alert and returns.
Eth_handleTransfer ==
    /\ alertOpen = "none"
    /\ RoutesOffered
    /\ EthTransferEnabled
    /\ Cardinality(calls) < MaxCalls
    /\ LET started == [ethTransactions EXCEPT !.loading = TRUE,
                                              !.successMessage = None]
           weiAmount == toWei(ethTransactions.amount)
       IN  IF weiAmount.thrown
           THEN /\ ethTransactions' = EthAfterInvokeTx(started, FALSE).state
                /\ alertOpen' = EthAfterInvokeTx(started, FALSE).alert
                /\ UNCHANGED calls
           ELSE IF walletDetails.dapperWallet.def
           THEN /\ ethTransactions' = started
                /\ calls' = calls \cup
                      {InvokeTxBegin(loggedIn.s, walletDetails.dapperWallet.s,
                                     ethTransactions.recipient, NoMethod,
                                     Some(weiAmount.wei), bnStrict)}
                /\ UNCHANGED alertOpen
           ELSE /\ ethTransactions' = EthAfterInvokeTx(started, TRUE).state
                /\ alertOpen' = "Unable to complete transaction"
                /\ UNCHANGED calls
    /\ UNCHANGED ethFrame

\* The promise of invokeTx has settled and handleTransfer goes on.
EthTransferSettles ==
    /\ alertOpen = "none"
    /\ \E c \in calls :
        /\ c.pc \in {"resolved", "rejected"}
        /\ calls' = calls \ {c}
        /\ ethTransactions' = EthAfterInvokeTx(ethTransactions, c.pc = "resolved").state
        /\ alertOpen' = EthAfterInvokeTx(ethTransactions, c.pc = "resolved").alert
    /\ UNCHANGED ethFrame

EthNext ==
    \/ setRecipient
    \/ setAmount
    \/ Eth_handleTransfer
    \/ EstimateGasSettles
    \/ SendSettles
    \/ EthTransferSettles
    \/ AlertDismissed

SpecEth == EthInit /\ [][EthNext]_vars

\* The last entry of the record of a call is a send() that went through.
SentAndMined(c) ==
    /\ c.log # <<>>
    /\ c.log[Len(c.log)].e = "send"
    /\ c.log[Len(c.log)].out = "ok"

\* C26: invokeTx resolves only after its invoke0 send() went through, and
\* EthTransactions puts up its success message only as the continuation of
\* such a call, made on the Dapper wallet that is set.
C26_SuccessOnlyAfterSend ==
    /\ [](\A c \in calls : c.pc = "resolved" => SentAndMined(c))
    /\ [][(SuccessShown' /\ ethTransactions'.successMessage # ethTransactions.successMessage)
            => /\ walletDetails.dapperWallet.def
               /\ \E c \in calls :
                    /\ c \notin calls'
                    /\ c.pc = "resolved"
                    /\ SentAndMined(c)
                    /\ c.dapperWallet = walletDetails.dapperWallet.s
                    /\ c.address = ethTransactions.recipient]_vars

C26_Witness ==
    /\ SuccessShown
    /\ ~ethTransactions.loading
    /\ calls = {}


-----------------------------------------------------------------------------
(* The token forms where every pending promise settles *)

\* The provider answers every read and every transaction, and the user
\* closes every alert: a continuation that is ready runs as soon as no
\* dialog blocks the page.
TokenFairness ==
    /\ SF_vars(OwnerReadSettles)
    /\ SF_vars(TransferSettles)
    /\ WF_vars(AlertDismissed)

FairSpecToken == SpecToken /\ TokenFairness

\* handleTransfer has set loading and no ownership check is under way.
TransferUnderWay == formDetails.loading /\ ownerReads = {}

\* C27: every transfer attempt ends with loading = false, whichever step
\* fails or succeeds, so that the form is never left disabled forever.
C27_TransferEndsLoading == TransferUnderWay ~> ~formDetails.loading


-----------------------------------------------------------------------------
(* Reset form *)

\* Reset form has just been clicked: nothing else clears transferSuccess.
FormIsReset == formDetails.transferSuccess /\ ~formDetails'.transferSuccess

\* C29: after Reset form in the ERC721 component the form state is the
\* initial state for the signed-in wallet: tokenId empty, transferrable,
\* transferSuccess and loading false, transferTo the wallet address.
C29_ResetRestoresInitial ==
    [][(component = "ERC721" /\ FormIsReset)
        => /\ formDetails'.tokenId = <<>>
           /\ ~formDetails'.transferrable
           /\ ~formDetails'.transferSuccess
           /\ ~formDetails'.loading
           /\ formDetails'.transferTo = walletAddressProp
           /\ formDetails' = initFormState(walletAddressProp, <<>>)]_vars


-----------------------------------------------------------------------------
(* The wallet contract across sign-ins *)

\* C30: whenever the Authorization view is shown for a Dapper sign-in,
\* across any sign-ins and sign-outs, the wallet contract it is given is
\* the contract at the address of the wallet that is signed in.
C30_ContractOfSignedInWallet ==
    AuthorizationShown => contract.s = loggedIn.s

====
